---------------------------- MODULE Spec2Model ----------------------------
(***************************************************************************)
(* StatCastle: the scorecard extraction engine of analyze.py.              *)
(*                                                                         *)
(* Text is modelled as TLA+ strings, read character by character, so the   *)
(* regular expressions of the source are modelled by what they match.      *)
(* Whitespace is the ordinary space: table_rows() hands every cell through *)
(* norm(), which leaves no other whitespace in a cell.                     *)
(* A float is an exact decimal [n, d] meaning n/d with d a power of ten    *)
(* (d = 0 is NaN, "absent").  An optional value is a sequence of length 0  *)
(* (Python's None) or 1.                                                   *)
(***************************************************************************)
EXTENDS Integers, Sequences, FiniteSets, TLC

VARIABLES
    \* SpecRow: one row handed to a row extractor
    cells,      \* the row's cells
    br,         \* what parse_batting_row returned for it
    wr,         \* what parse_bowling_row returned for it
    slots,      \* parse_bowling_row's (o, m, dot, r, w, econ) before the econ fallback
    rowpc,      \* "new" | "batting" | "bowling" | "idle"
    \* Spec: main()'s loop over the tables of a match and their rows
    roster_map,         \* canonical key -> display name
    team_key,           \* canonical key of the configured team, "" when none
    match_meta,         \* the match's metadata
    match_id,           \* the id of the match being processed
    pc,                 \* "tables" | "rows" | "idle"
    header,             \* rows[0] of the table being processed
    kind,               \* detect_table_context's kind of that table
    row_idx,            \* how many rows of the table were processed
    batting_position,
    bats, bowls,        \* the emitted records
    unknown_batters, unknown_bowlers,
    bat_rows, bowl_rows,\* for each emitted record, the row it came from
    last,               \* the row processed last and what became of it
    n_tables, n_rows,   \* tables begun, data rows read
    \* SpecDate: the date of a match as parse_match_metadata reads it
    date_raw,           \* the text found beside the "Date" label
    date_out,           \* what parse_date_safely returned for it
    stored_date,        \* meta["match_date"]
    datepc,             \* "new" | "stored" | "idle"
    \* SpecToss, SpecResult: the configured team's name, "" when there is none
    team_name,
    \* SpecToss: the toss as parse_match_metadata reads it
    toss_text,          \* the cell beside "Toss:", tags removed; None without one
    toss_winner,        \* meta["toss_winner"]
    toss_decision,      \* meta["toss_decision"]
    tosspc,             \* "new" | "done" | "idle"
    \* SpecResult: parse_match_result called twice on one match
    full_html,          \* the page: its text and its heading elements
    tables_html,        \* the first row of each of the scorecard's tables
    info_html,          \* the elements of the match-info page, <<>> without one
    result_info,        \* what the first call returned
    result_again,       \* what the second call returned
    respc,              \* "new" | "once" | "twice" | "idle"
    \* SpecContext: one table handed to detect_table_context
    tbl_rows,           \* the table's rows
    context,            \* what detect_table_context returned for them
    ctxpc,              \* "new" | "done" | "idle"
    \* SpecSplit: one batter cell handed to split_name_and_dismissal
    cell_text,          \* the cell
    split_out,          \* the <<name, dismissal>> returned for it
    splitpc             \* "new" | "done" | "idle"

rowVars == <<cells, br, wr, slots, rowpc>>
mainVars == <<roster_map, team_key, match_meta, match_id, pc, header, kind, row_idx,
              batting_position, bats, bowls, unknown_batters, unknown_bowlers,
              bat_rows, bowl_rows, last, n_tables, n_rows>>
dateVars == <<date_raw, date_out, stored_date, datepc>>
tossVars == <<toss_text, toss_winner, toss_decision, tosspc>>
resVars == <<full_html, tables_html, info_html, result_info, result_again, respc>>
metaVars == <<dateVars, team_name, tossVars, resVars>>
ctxVars == <<tbl_rows, context, ctxpc>>
splitVars == <<cell_text, split_out, splitpc>>

\* the specifications of the dot-ball counter, of main()'s files and of the exporter
VARIABLES
    \* SpecBalls: parse_ball_by_ball on one ball-by-ball fragment
    ball_layout,         \* the deliveries the fragment tells of, by element and table; None without fragment
    ball_counts,         \* counts, in insertion order
    elems_done,          \* detail elements read
    tables_done,         \* tables read
    ballpc,              \* "elements" | "tables" | "done" | "idle"
    \* SpecDots: the dot-ball enrichment of parse_batting_row on one name
    bat_name,            \* rec["Name"]
    dots_table,          \* dot_lookup, in insertion order
    dot_out,             \* the dot-ball fields set on rec
    dotpc,               \* "new" | "done" | "idle"
    \* SpecNames: canonical_name on two raw names
    raw_a,               \* one raw name
    raw_b,               \* another raw name
    key_a,               \* canonical_name(raw_a)
    key_b,               \* canonical_name(raw_b)
    key_again,           \* canonical_name(key_a)
    namepc,              \* "new" | "done" | "idle"
    \* SpecLeague: the exporter's main() with two league workers
    force_refresh,       \* FORCE_REFRESH
    leagues,             \* config["leagues"]
    out_files,           \* output directory -> its matches.json
    files_before,        \* out_files when main() began
    leaguepc,            \* worker -> "start" | "loaded" | "fetching" | "saving" | "done"
    existing_matches,    \* worker -> the matches it loaded
    new_match_ids,       \* worker -> the ids it fetches
    futures,             \* worker -> the ids whose fetch has not completed
    completed,           \* worker -> the fetches in their order of completion
    records,             \* worker -> its records
    written,             \* worker -> what it wrote, None when nothing
    \* SpecFetch: fetch_single_match on one match
    fetchpc,             \* "scorecard" | "ball" | "info" | "done"
    attempt,             \* the attempt the running fetch function is at
    fetch_log,           \* the attempts made: function, attempt and what happened
    got_tables,          \* what fetch_scorecard_rendered returned, None before and when it raised
    got_ball,            \* what fetch_ball_by_ball returned
    got_info,            \* what fetch_match_info returned
    fetched,             \* "pending" | "match" (the record is returned) | "none" (None is returned)
    \* SpecFiles: main()'s loop over the input files
    match_files,         \* the input files: path and what json.loads gives, None when it raises
    file_idx,            \* the file main() is at
    match_idx,           \* the match of the file it is at, 0 before the file is read
    seen_matches,        \* seen_matches
    all_bats,            \* bats: a record per batting row
    all_bowls,           \* bowls: a record per bowling row
    bats_from,           \* per record of bats the file and match it came from
    bowls_from,          \* per record of bowls the file and match it came from
    filepc               \* "files" | "done" | "idle"

ballsVars == <<ball_layout, ball_counts, elems_done, tables_done, ballpc>>
dotsVars == <<bat_name, dots_table, dot_out, dotpc>>
namesVars == <<raw_a, raw_b, key_a, key_b, key_again, namepc>>
leagueVars == <<force_refresh, leagues, out_files, files_before, leaguepc, existing_matches, new_match_ids, futures, completed, records, written>>
fetchVars == <<fetchpc, attempt, fetch_log, got_tables, got_ball, got_info, fetched>>
filesVars == <<match_files, file_idx, match_idx, seen_matches, all_bats, all_bowls, bats_from, bowls_from, filepc>>

BallsIdle ==
    /\ ball_layout = <<>>
    /\ ball_counts = <<>>
    /\ elems_done = 0
    /\ tables_done = 0
    /\ ballpc = "idle"

DotsIdle ==
    /\ bat_name = ""
    /\ dots_table = <<>>
    /\ dot_out = <<>>
    /\ dotpc = "idle"

NamesIdle ==
    /\ raw_a = ""
    /\ raw_b = ""
    /\ key_a = ""
    /\ key_b = ""
    /\ key_again = ""
    /\ namepc = "idle"

LeagueIdle ==
    /\ force_refresh = FALSE
    /\ leagues = <<>>
    /\ out_files = <<>>
    /\ files_before = <<>>
    /\ leaguepc = <<>>
    /\ existing_matches = <<>>
    /\ new_match_ids = <<>>
    /\ futures = <<>>
    /\ completed = <<>>
    /\ records = <<>>
    /\ written = <<>>

FetchIdle ==
    /\ fetchpc = "idle"
    /\ attempt = 0
    /\ fetch_log = <<>>
    /\ got_tables = <<>>
    /\ got_ball = <<>>
    /\ got_info = <<>>
    /\ fetched = "idle"

FilesIdle ==
    /\ match_files = <<>>
    /\ file_idx = 0
    /\ match_idx = 0
    /\ seen_matches = {}
    /\ all_bats = <<>>
    /\ all_bowls = <<>>
    /\ bats_from = <<>>
    /\ bowls_from = <<>>
    /\ filepc = "idle"

laterVars == <<ballsVars, dotsVars, namesVars, leagueVars, fetchVars, filesVars>>

LaterIdle == BallsIdle /\ DotsIdle /\ NamesIdle /\ LeagueIdle /\ FetchIdle /\ FilesIdle

\* what the steps of SpecBalls leave alone
ballsOthers == <<rowVars, mainVars, metaVars, ctxVars, splitVars, dotsVars, namesVars, leagueVars, fetchVars, filesVars>>

BallsOthersIdle == DotsIdle /\ NamesIdle /\ LeagueIdle /\ FetchIdle /\ FilesIdle

\* what the steps of SpecDots leave alone
dotsOthers == <<rowVars, mainVars, metaVars, ctxVars, splitVars, ballsVars, namesVars, leagueVars, fetchVars, filesVars>>

DotsOthersIdle == BallsIdle /\ NamesIdle /\ LeagueIdle /\ FetchIdle /\ FilesIdle

\* what the steps of SpecNames leave alone
namesOthers == <<rowVars, mainVars, metaVars, ctxVars, splitVars, ballsVars, dotsVars, leagueVars, fetchVars, filesVars>>

NamesOthersIdle == BallsIdle /\ DotsIdle /\ LeagueIdle /\ FetchIdle /\ FilesIdle

\* what the steps of SpecLeague leave alone
leagueOthers == <<rowVars, mainVars, metaVars, ctxVars, splitVars, ballsVars, dotsVars, namesVars, fetchVars, filesVars>>

LeagueOthersIdle == BallsIdle /\ DotsIdle /\ NamesIdle /\ FetchIdle /\ FilesIdle

\* what the steps of SpecFetch leave alone
fetchOthers == <<rowVars, mainVars, metaVars, ctxVars, splitVars, ballsVars, dotsVars, namesVars, leagueVars, filesVars>>

FetchOthersIdle == BallsIdle /\ DotsIdle /\ NamesIdle /\ LeagueIdle /\ FilesIdle

\* what the steps of SpecFiles leave alone
filesOthers == <<rowVars, mainVars, metaVars, ctxVars, splitVars, ballsVars, dotsVars, namesVars, leagueVars, fetchVars>>

FilesOthersIdle == BallsIdle /\ DotsIdle /\ NamesIdle /\ LeagueIdle /\ FetchIdle

pureVars == <<ctxVars, splitVars, laterVars>>
vars == <<rowVars, mainVars, metaVars, pureVars>>

-----------------------------------------------------------------------------
(* Characters and strings                                                  *)

Ch(s, i) == SubSeq(s, i, i)

\* s[i:i+1]: empty outside s
ChAt(s, i) == IF i >= 1 /\ i <= Len(s) THEN SubSeq(s, i, i) ELSE ""

UpperChars == "ABCDEFGHIJKLMNOPQRSTUVWXYZ"
LowerChars == "abcdefghijklmnopqrstuvwxyz"
DigitChars == "0123456789"

UpperSet == {Ch(UpperChars, i) : i \in 1..26}
LowerSet == {Ch(LowerChars, i) : i \in 1..26}
DigitSet == {Ch(DigitChars, i) : i \in 1..10}

LowerMap == [c \in UpperSet |-> Ch(LowerChars, CHOOSE i \in 1..26 : Ch(UpperChars, i) = c)]
UpperMap == [c \in LowerSet |-> Ch(UpperChars, CHOOSE i \in 1..26 : Ch(LowerChars, i) = c)]
DigitMap == [c \in DigitSet |-> (CHOOSE i \in 1..10 : Ch(DigitChars, i) = c) - 1]

IsDigit(c) == c \in DigitSet
IsAlpha(c) == c \in UpperSet \cup LowerSet
IsSpace(c) == c = " "
\* \w of the re module
IsWord(c)  == IsDigit(c) \/ IsAlpha(c) \/ c = "_"

ToLowerCh(c) == IF c \in UpperSet THEN LowerMap[c] ELSE c
ToUpperCh(c) == IF c \in LowerSet THEN UpperMap[c] ELSE c

RECURSIVE LowerStr(_)
\* str.lower()
LowerStr(s) == IF s = "" THEN "" ELSE ToLowerCh(Ch(s, 1)) \o LowerStr(Tail(s))

RECURSIVE LStrip(_)
LStrip(s) == IF s # "" /\ IsSpace(Ch(s, 1)) THEN LStrip(Tail(s)) ELSE s

RECURSIVE RStrip(_)
RStrip(s) ==
    IF s # "" /\ IsSpace(Ch(s, Len(s))) THEN RStrip(SubSeq(s, 1, Len(s) - 1)) ELSE s

\* str.strip()
Strip(s) == RStrip(LStrip(s))

RECURSIVE Collapse(_)
\* re.sub(r"\s+", " ", s)
Collapse(s) ==
    IF Len(s) < 2 THEN s
    ELSE IF IsSpace(Ch(s, 1)) /\ IsSpace(Ch(s, 2)) THEN Collapse(Tail(s))
    ELSE Ch(s, 1) \o Collapse(Tail(s))

norm(s) == Collapse(Strip(s))

lower(s) == LowerStr(norm(s))

RECURSIVE Remove(_, _)
\* s.replace(c, "")
Remove(s, c) ==
    IF s = "" THEN ""
    ELSE IF Ch(s, 1) = c THEN Remove(Tail(s), c)
    ELSE Ch(s, 1) \o Remove(Tail(s), c)

RECURSIVE TitleFrom(_, _)
\* str.title(): a letter is upper-cased after an uncased character, lower-cased
\* after a cased one
TitleFrom(s, prevCased) ==
    IF s = "" THEN ""
    ELSE LET c == Ch(s, 1) IN
         IF IsAlpha(c)
         THEN (IF prevCased THEN ToLowerCh(c) ELSE ToUpperCh(c)) \o TitleFrom(Tail(s), TRUE)
         ELSE c \o TitleFrom(Tail(s), FALSE)

title_clean(s) == TitleFrom(Strip(Remove(norm(s), "*")), FALSE)

IsKeyCh(c) == c \in LowerSet \/ IsDigit(c)

RECURSIVE SubNonKey(_)
\* re.sub(r"[^a-z0-9]+", " ", s)
SubNonKey(s) ==
    IF s = "" THEN ""
    ELSE IF IsKeyCh(Ch(s, 1)) THEN Ch(s, 1) \o SubNonKey(Tail(s))
    ELSE IF Len(s) >= 2 /\ ~IsKeyCh(Ch(s, 2)) THEN SubNonKey(Tail(s))
    ELSE " " \o SubNonKey(Tail(s))

\* a key made by taking the characters outside [a-z0-9 ] away
canonical_name_removing(s) ==
    norm(Remove(Remove(Remove(Remove(lower(s), "'"), "."), "-"), "*"))

canonical_name(s) == Strip(SubNonKey(lower(s)))

\* the literal lit stands in s at position i
MatchAt(s, i, lit) ==
    /\ i >= 1
    /\ i + Len(lit) - 1 <= Len(s)
    /\ SubSeq(s, i, i + Len(lit) - 1) = lit

StartsWith(s, lit) == MatchAt(s, 1, lit)

\* lit in s
Contains(s, lit) == \E i \in 1..(Len(s) + 1) : MatchAt(s, i, lit)

\* \b between s[i-1] and s[i]
WordB(s, i) ==
    LET before == i >= 2 /\ i - 1 <= Len(s) /\ IsWord(Ch(s, i - 1))
        after  == i >= 1 /\ i <= Len(s) /\ IsWord(Ch(s, i))
    IN  before # after

\* \blit\b somewhere in s
ContainsWord(s, lit) ==
    \E i \in 1..Len(s) : WordB(s, i) /\ MatchAt(s, i, lit) /\ WordB(s, i + Len(lit))

RECURSIVE JoinCells(_)
\* " ".join(cells)
JoinCells(cs) ==
    IF cs = <<>> THEN ""
    ELSE IF Len(cs) = 1 THEN cs[1]
    ELSE cs[1] \o " " \o JoinCells(Tail(cs))

RECURSIVE DigitRunEnd(_, _)
\* the last position of the run of digits that starts at i (i - 1 when s[i] is none)
DigitRunEnd(s, i) ==
    IF i <= Len(s) /\ IsDigit(Ch(s, i)) THEN DigitRunEnd(s, i + 1) ELSE i - 1

RECURSIVE SkipSpaces(_, _)
\* the first position at or after i that holds no whitespace
SkipSpaces(s, i) ==
    IF i <= Len(s) /\ IsSpace(Ch(s, i)) THEN SkipSpaces(s, i + 1) ELSE i

AllDigits(s) == s # "" /\ \A i \in 1..Len(s) : IsDigit(Ch(s, i))

RECURSIVE IntOf(_)
\* int(s) of a string of digits
IntOf(s) == IF s = "" THEN 0 ELSE 10 * IntOf(SubSeq(s, 1, Len(s) - 1)) + DigitMap[Ch(s, Len(s))]

-----------------------------------------------------------------------------
(* Floats                                                                  *)

NaN == [n |-> 0, d |-> 0]
isna(x) == x.d = 0
notna(x) == x.d # 0

RECURSIVE Reduce(_)
Reduce(x) ==
    IF x.d > 1 /\ x.n % 10 = 0 THEN Reduce([n |-> x.n \div 10, d |-> x.d \div 10]) ELSE x

RECURSIVE Pow10(_)
Pow10(k) == IF k = 0 THEN 1 ELSE 10 * Pow10(k - 1)

IntNum(k) == [n |-> k, d |-> 1]
Leq(a, b) == a.n * b.d <= b.n * a.d
Lt(a, b) == a.n * b.d < b.n * a.d
Between(lo, x, hi) == Leq(lo, x) /\ Leq(x, hi)
Half == [n |-> 5, d |-> 10]

\* the least member of a set of positions, 0 when the set is empty
Min0(S) == IF S = {} THEN 0 ELSE CHOOSE i \in S : \A j \in S : i <= j

\* the position of the first dot in s, 0 when there is none
DotPos(s) == Min0({i \in 1..Len(s) : Ch(s, i) = "."})

NumishAt(x, p) ==
    IF p = 0 THEN AllDigits(x)
    ELSE AllDigits(SubSeq(x, 1, p - 1)) /\ AllDigits(SubSeq(x, p + 1, Len(x)))

\* re.fullmatch(r"\d+(\.\d+)?", x)
is_numish(x) == NumishAt(x, DotPos(x))

FloatAt(x, p) ==
    IF p = 0 THEN IntNum(IntOf(x))
    ELSE Reduce([n |-> IntOf(SubSeq(x, 1, p - 1) \o SubSeq(x, p + 1, Len(x))),
                 d |-> Pow10(Len(x) - p)])

\* float(x) of a numish token
FloatOfNumish(x) == FloatAt(x, DotPos(x))

\* float() of an unsigned decimal literal with integer part ip and fraction fp
DecimalValue(ip, fp, neg) ==
    IF /\ ip \o fp # ""
       /\ \A i \in 1..Len(ip) : IsDigit(Ch(ip, i))
       /\ \A i \in 1..Len(fp) : IsDigit(Ch(fp, i))
    THEN <<Reduce([n |-> (IF neg THEN 0 - 1 ELSE 1) * IntOf(ip \o fp), d |-> Pow10(Len(fp))])>>
    ELSE <<>>

Decimal(m, p, neg) ==
    IF p = 0 THEN DecimalValue(m, "", neg)
    ELSE DecimalValue(SubSeq(m, 1, p - 1), SubSeq(m, p + 1, Len(m)), neg)

SignedDecimal(t) ==
    IF t # "" /\ Ch(t, 1) \in {"+", "-"}
    THEN Decimal(Tail(t), DotPos(Tail(t)), Ch(t, 1) = "-")
    ELSE Decimal(t, DotPos(t), FALSE)

\* float(x) as Python reads a decimal literal: surrounding whitespace, a sign,
\* digits with an optional point.  <<>> is ValueError.  (Exponents, inf, nan
\* and digit-group underscores are not modelled; no cell of the row pools
\* uses them.)
PyFloat(x) == SignedDecimal(Strip(x))

-----------------------------------------------------------------------------
(* Section rows, dismissal keywords, names                                 *)

\* SECTION_PATTERNS, searched in t = lower(text)
SectionText(t) ==
    \/ t \in {"bowling", "batting", "o", "r"}
    \/ \E w \in {"extras", "total", "did not bat"} : StartsWith(t, w) /\ WordB(t, Len(w) + 1)
    \/ \E w \in {"innings", "league", "houston premier", "hpt20l", "fall of wickets",
                 "partnership"} : ContainsWord(t, w)
    \/ Len(t) >= 2 /\ Ch(t, 1) = "(" /\ Ch(t, Len(t)) = ")"

\* a section test that knows the section words but not the noise rows
is_section_like_words_only(text) ==
    \/ lower(text) \in {"bowling", "batting"}
    \/ \E w \in {"extras", "total", "did not bat"} :
          StartsWith(lower(text), w) /\ WordB(lower(text), Len(w) + 1)
    \/ \E w \in {"innings", "league", "houston premier", "hpt20l", "fall of wickets",
                 "partnership"} : ContainsWord(lower(text), w)

is_section_like(text) == SectionText(lower(text))

\* a dismissal pattern without its "not out" alternative
DismissAtButNotOut(t, i) ==
    /\ WordB(t, i)
    /\ \/ \E w \in {"c&b", "c ", "b ", "lbw", "st ", "run out", "retired hurt",
                    "retired"} : MatchAt(t, i, w)
       \/ \E w \in {"c", "b", "st"} : MatchAt(t, i, w) /\ WordB(t, i + Len(w))

\* DISMISS_ANY matches at position i of t, t in lower case (the pattern is
\* compiled with re.I)
DismissAt(t, i) ==
    /\ WordB(t, i)
    /\ \/ \E w \in {"not out", "c&b", "c ", "b ", "lbw", "st ", "run out", "retired hurt",
                    "retired"} : MatchAt(t, i, w)
       \/ \E w \in {"c", "b", "st"} : MatchAt(t, i, w) /\ WordB(t, i + Len(w))

FirstDismiss(t) == Min0({i \in 1..Len(t) : DismissAt(t, i)})

\* DISMISS_ANY.search(s): the start of the leftmost match, 0 when there is none
DISMISS_ANY(s) == FirstDismiss(LowerStr(s))

NameText(s2) ==
    /\ s2 # ""
    /\ ~is_section_like(s2)
    /\ ~(\A i \in 1..Len(s2) :
            IsDigit(Ch(s2, i)) \/ IsSpace(Ch(s2, i)) \/ Ch(s2, i) \in {".", "-", "(", ")", "/", ":"})
    /\ \E i \in 1..Len(s2) : IsAlpha(Ch(s2, i))

looks_name(s) == NameText(Strip(Remove(s, "*")))

\* a mapping without the rule for stumpings
HowOutNoStumped(h, x) ==
    IF StartsWith(x, "c") THEN "catch"
    ELSE IF StartsWith(x, "b") THEN "bowled"
    ELSE IF StartsWith(x, "not out") THEN "not out"
    ELSE IF Contains(x, "run out") THEN "run out"
    ELSE IF Contains(x, "lbw") THEN "lbw"
    ELSE Strip(h)

HowOut(h, x) ==
    IF StartsWith(x, "c") THEN "catch"
    ELSE IF StartsWith(x, "b") THEN "bowled"
    ELSE IF StartsWith(x, "not out") THEN "not out"
    ELSE IF Contains(x, "run out") THEN "run out"
    ELSE IF Contains(x, "lbw") THEN "lbw"
    ELSE IF StartsWith(x, "st") THEN "stumped"
    ELSE Strip(h)

simplify_how_out(h) == HowOut(h, lower(h))

\* s split at the start m of the dismissal text, m = 0 when there is none
SplitAt(s, m) ==
    IF m > 0
    THEN <<title_clean(Strip(SubSeq(s, 1, m - 1))), simplify_how_out(Strip(SubSeq(s, m, Len(s))))>>
    ELSE <<title_clean(s), simplify_how_out("")>>

SplitText(s) == SplitAt(s, DISMISS_ANY(s))

\* <<name, dismissal>>
split_name_and_dismissal(text) == SplitText(norm(text))

-----------------------------------------------------------------------------
(* Plausibility Validator                                                  *)

\* a validator that does not look at the runs
plausible_batting_any_runs(runs, balls, sr, fours, sixes) ==
    /\ isna(balls) \/ Between(IntNum(0), balls, IntNum(120))
    /\ isna(sr) \/ Between(IntNum(10), sr, IntNum(400))
    /\ isna(fours) \/ Leq(fours, IntNum(30))
    /\ isna(sixes) \/ Leq(sixes, IntNum(20))

plausible_batting(runs, balls, sr, fours, sixes) ==
    LET ok_runs  == isna(runs) \/ Between(IntNum(0), runs, IntNum(200))
        ok_balls == isna(balls) \/ Between(IntNum(0), balls, IntNum(120))
        ok_sr    == isna(sr) \/ Between(IntNum(10), sr, IntNum(400))
        ok_46    == /\ isna(fours) \/ Leq(fours, IntNum(30))
                    /\ isna(sixes) \/ Leq(sixes, IntNum(20))
    IN  ok_runs /\ ok_balls /\ ok_sr /\ ok_46

plausible_bowling(o, m, dot, r, w, econ) ==
    /\ isna(o) \/ Between(IntNum(0), o, IntNum(10))
    /\ isna(m) \/ Between(IntNum(0), m, IntNum(5))
    /\ isna(dot) \/ Between(IntNum(0), dot, IntNum(36))
    /\ isna(r) \/ Between(IntNum(0), r, IntNum(120))
    /\ isna(w) \/ Between(IntNum(0), w, IntNum(10))
    /\ isna(econ) \/ Between(Half, econ, IntNum(20))


-----------------------------------------------------------------------------
(* The rows main()'s table loop reads in Spec                              *)

Headers ==
    {<<"Strikers innings (20 overs maximum)", "R", "B", "4s", "6s", "SR">>,
     <<"Riders innings", "R", "B">>,
     <<"Bowling", "O", "M", "Dot", "R", "W", "Econ">>,
     <<"Strikers CC Bowling", "O", "M">>,
     <<"Fall of wickets">>}

MainRows ==
    {<<"Amit", "45(30)", "4", "2", "150.00">>,
     <<"Ravi c Sam b Jon", "12", "10", "1", "0", "120.00">>,
     <<"Kiran not out", "7", "5">>,
     <<"Amit", "250", "30">>,
     <<"Extras", "(B 0 Lb 1)", "5">>,
     <<"Imran", "4", "0", "12", "24", "2", "6.00">>,
     <<"Kiran", "4", "0", "12", "24", "2", "6.00">>}

\* every row "for r in rows" can meet: a header row is rows[0] of its table
LoopRows == MainRows \cup Headers

-----------------------------------------------------------------------------
(* Batting Row Extractor                                                   *)

None == <<>>

\* the index of the first cell with P, 0 when there is none
FirstIdx(cs, P(_)) ==
    IF \E i \in 1..Len(cs) : P(cs[i])
    THEN CHOOSE i \in 1..Len(cs) : P(cs[i]) /\ \A j \in 1..(i - 1) : ~P(cs[j])
    ELSE 0

NonBlank(c) == Strip(c) # ""

\* the second group of the runs(balls) pattern begins at k2
MrbGroup2(s, i, e1, k2) ==
    IF e1 >= i /\ DigitRunEnd(s, k2) >= k2
    THEN <<SubSeq(s, i, e1), SubSeq(s, k2, DigitRunEnd(s, k2))>>
    ELSE <<>>

\* the separator [\(\s] of the pattern, k the first non-space after group 1
MrbSep(s, i, e1, k) ==
    IF k <= Len(s) /\ Ch(s, k) = "(" THEN MrbGroup2(s, i, e1, SkipSpaces(s, k + 1))
    ELSE IF k > e1 + 1 THEN MrbGroup2(s, i, e1, k)
    ELSE <<>>

MrbGroup1(s, i, e1) == MrbSep(s, i, e1, SkipSpaces(s, e1 + 1))

\* re.search(r'(\d+)\s*[\(\s]\s*(\d+)\s*\)?', joined) tried at a run of digits
\* that starts at i: <<group 1, group 2>>, or <<>> when it does not match there
MrbAt(s, i) == MrbGroup1(s, i, DigitRunEnd(s, i))

MrbFirst(s, i) == IF i = 0 THEN <<>> ELSE MrbAt(s, i)

\* the leftmost match of the runs(balls) pattern in the joined row text
MrbSearch(s) == MrbFirst(s, Min0({i \in 1..Len(s) : MrbAt(s, i) # <<>>}))

\* the ways token reads as digits, spaces, "(", digits, ")"
ComboMatches(token) ==
    {<<SubSeq(token, 1, e1), SubSeq(token, k + 1, Len(token) - 1)>> :
        <<e1, k>> \in {<<a, b>> \in (1..Len(token)) \X (1..Len(token)) :
                        /\ a < b
                        /\ AllDigits(SubSeq(token, 1, a))
                        /\ \A j \in (a + 1)..(b - 1) : IsSpace(Ch(token, j))
                        /\ Ch(token, b) = "("
                        /\ AllDigits(SubSeq(token, b + 1, Len(token) - 1))
                        /\ Ch(token, Len(token)) = ")"}}

\* re.fullmatch(r"(\d+)\s*\((\d+)\)", token): <<group 1, group 2>> or <<>>
ComboMatch(token) ==
    IF ComboMatches(token) = {} THEN <<>> ELSE CHOOSE m \in ComboMatches(token) : TRUE

ComboNums(combo) ==
    IF combo # <<>> THEN <<IntNum(IntOf(combo[1])), IntNum(IntOf(combo[2]))>> ELSE <<>>

\* what one cell of the tail appends to ordered_nums
TokenNums(token) ==
    IF token = "" THEN <<>>
    ELSE IF is_numish(token) THEN <<FloatOfNumish(token)>>
    ELSE ComboNums(ComboMatch(token))

RECURSIVE OrderedNums(_)
\* the numeric tokens of the cells after the name, in order
OrderedNums(tail) ==
    IF tail = <<>> THEN <<>>
    ELSE TokenNums(norm(Head(tail))) \o OrderedNums(Tail(tail))

RECURSIVE IntCells(_)
\* [int(x) for x in cells if re.fullmatch(r"\d+", x)]
IntCells(cs) ==
    IF cs = <<>> THEN <<>>
    ELSE (IF AllDigits(Head(cs)) THEN <<IntOf(Head(cs))>> ELSE <<>>) \o IntCells(Tail(cs))

SeqMax(q) == CHOOSE v \in {q[i] : i \in 1..Len(q)} : \A j \in 1..Len(q) : q[j] <= v

\* q without its element at position top
Without(q, top) == [j \in 1..(Len(q) - 1) |-> IF j < top THEN q[j] ELSE q[j + 1]]

\* sorted(ints)[-2]
SecondLargest(q) == SeqMax(Without(q, CHOOSE i \in 1..Len(q) : q[i] = SeqMax(q)))

SmallInt(v) == v <= 6

SrValue(v) == v # <<>> /\ Between(IntNum(20), v[1], IntNum(400))

SrCell(x) == SrValue(PyFloat(x))

SrAt(cs, i) == IF i = 0 THEN NaN ELSE PyFloat(cs[i])[1]

\* the first cell that float() reads as a value in [20, 400]
SrFallback(cs) == SrAt(cs, FirstIdx(cs, SrCell))

take_ord(ordered_nums, idx) == IF idx < Len(ordered_nums) THEN ordered_nums[idx + 1] ELSE NaN

BoundaryOrd(val) == IF notna(val) /\ Leq(val, IntNum(36)) THEN val ELSE NaN

\* runs, balls from the runs(balls) match, then the positional assignment
Positional(mrb, ordered_nums) ==
    [runs  |-> IF mrb # <<>> THEN IntNum(IntOf(mrb[1])) ELSE take_ord(ordered_nums, 0),
     balls |-> IF mrb # <<>> THEN IntNum(IntOf(mrb[2])) ELSE take_ord(ordered_nums, 1),
     fours |-> BoundaryOrd(take_ord(ordered_nums, 2)),
     sixes |-> BoundaryOrd(take_ord(ordered_nums, 3)),
     sr    |-> take_ord(ordered_nums, 4)]

\* "integer harvesting fallback" and "SR fallback"
Harvest(f, ints, small, cs) ==
    [runs  |-> IF isna(f.runs) /\ ints # <<>> THEN IntNum(SeqMax(ints)) ELSE f.runs,
     balls |-> IF isna(f.balls) /\ Len(ints) >= 2 THEN IntNum(SecondLargest(ints)) ELSE f.balls,
     fours |-> IF isna(f.fours) /\ small # <<>> THEN IntNum(small[1]) ELSE f.fours,
     sixes |-> IF isna(f.sixes) /\ Len(small) >= 2 THEN IntNum(small[2]) ELSE f.sixes,
     sr    |-> IF isna(f.sr) THEN SrFallback(cs) ELSE f.sr]

HarvestInts(f, ints, cs) == Harvest(f, ints, SelectSeq(ints, SmallInt), cs)

\* the five numeric fields before the boundary clamp: positional, then harvested
BattingFields(cs, name_idx) ==
    HarvestInts(Positional(MrbSearch(JoinCells(cs)),
                           OrderedNums(SubSeq(cs, name_idx + 1, Len(cs)))),
                IntCells(cs), cs)

\* an extractor that leaves the boundary counts as it read them
ClampNothing(f) == f

\* "clamp impossible boundary counts"
ClampBoundaries(f) ==
    IF isna(f.runs) THEN f
    ELSE LET six1 == IF notna(f.sixes) /\ 6 * f.sixes.n * f.runs.d > f.runs.n * f.sixes.d
                     THEN IntNum(f.runs.n \div (6 * f.runs.d))
                     ELSE f.sixes
         IN  IF f.runs.n = 0
             THEN [f EXCEPT !.fours = IF notna(f.fours) THEN IntNum(0) ELSE f.fours,
                            !.sixes = IF notna(six1) THEN IntNum(0) ELSE six1]
             ELSE [f EXCEPT !.sixes = six1]

Present(x) == IF notna(x) THEN 1 ELSE 0

\* the checks that follow the split of the name cell; nd = <<name, how_simpl>>
BattingChecked(nd, f) ==
    IF LowerStr(nd[1]) \in {"extras", "total"} THEN None
    ELSE IF ~plausible_batting(f.runs, f.balls, f.sr, f.fours, f.sixes) THEN None
    ELSE <<[name |-> nd[1], how_simpl |-> nd[2], f |-> f]>>

BattingNamed(cs, name_idx) ==
    IF name_idx = 0 THEN None
    ELSE BattingChecked(split_name_and_dismissal(cs[name_idx]),
                        ClampBoundaries(BattingFields(cs, name_idx)))

BattingFirst(cs, first_idx) ==
    IF first_idx = 0 THEN None
    ELSE IF is_section_like(cs[first_idx]) THEN None
    ELSE BattingNamed(cs, FirstIdx(cs, looks_name))

\* the row's name, dismissal and validated numeric fields, None when the row
\* is rejected
BattingCandidate(cs) == BattingFirst(cs, FirstIdx(cs, NonBlank))

\* BattingCandidate over the rows the table loop reads, evaluated once
BattingCandidates == [r \in LoopRows |-> BattingCandidate(r)]

BattingOf(cs) == IF cs \in LoopRows THEN BattingCandidates[cs] ELSE BattingCandidate(cs)

\* rec of parse_batting_row from the accepted candidate c
BattingRecord(c, mid, meta, position) ==
    IF c = None THEN None
    ELSE <<[Name |-> c[1].name,
            Runs |-> c[1].f.runs, Balls |-> c[1].f.balls,
            Fours |-> c[1].f.fours, Sixes |-> c[1].f.sixes, SR |-> c[1].f.sr,
            Dismissal_Type |-> c[1].how_simpl,
            Match_Id |-> mid,
            Batting_Position |-> position,
            match_date |-> IF meta # None THEN meta[1].match_date ELSE None,
            match_type |-> IF meta # None THEN meta[1].match_type ELSE None,
            is_playoff |-> IF meta # None THEN meta[1].is_playoff ELSE FALSE,
            score |-> Present(c[1].f.runs) + Present(c[1].f.balls) + Present(c[1].f.fours)
                      + Present(c[1].f.sixes) + Present(c[1].f.sr)]>>

\* name.split()[0], "" when name has no word
FirstWord(name) ==
    SubSeq(LStrip(name), 1,
           Min0({i \in 1..(Len(LStrip(name)) + 1) : ChAt(LStrip(name), i) \in {" ", ""}}) - 1)

\* dot_lookup.get(key): the entry's index in the table lk, 0 without one
DotByKey(key, lk) == Min0({i \in 1..Len(lk) : lk[i].name = key})

\* the entry whose name equals name when case is ignored
DotByCase(name, lk) == Min0({i \in 1..Len(lk) : LowerStr(lk[i].name) = LowerStr(name)})

\* a partial match that takes any prefix, however short
DotPartialAnyLength(first, lookup) ==
    \/ FirstWord(lookup) # "" /\ LowerStr(FirstWord(lookup)) = first
    \/ StartsWith(first, LowerStr(lookup)) \/ StartsWith(LowerStr(lookup), first)

\* the partial match of first names: first is name's first word in lower
\* case, lookup an entry's name
DotPartial(first, lookup) ==
    \/ FirstWord(lookup) # "" /\ LowerStr(FirstWord(lookup)) = first
    \/ /\ StartsWith(first, LowerStr(lookup)) \/ StartsWith(LowerStr(lookup), first)
       /\ Len(lookup) >= 3
       /\ Len(first) >= 3

DotByFirstName(name, lk) ==
    IF FirstWord(name) = "" THEN 0
    ELSE Min0({i \in 1..Len(lk) : DotPartial(LowerStr(FirstWord(name)), lk[i].name)})

\* the entry of dot_lookup found for name, by the four lookups in turn
DotIndex(name, lk) ==
    IF DotByKey(name, lk) # 0 THEN DotByKey(name, lk)
    ELSE IF Len(name) >= 1 /\ ChAt(name, Len(name)) = "*"
            /\ DotByKey(title_clean(Remove(name, "*")), lk) # 0
         THEN DotByKey(title_clean(Remove(name, "*")), lk)
    ELSE IF DotByCase(name, lk) # 0 THEN DotByCase(name, lk)
    ELSE DotByFirstName(name, lk)

\* round((dot_count / ball_count) * 100, 1)
DotPct(dot_count, ball_count) ==
    Reduce([n |-> (2000 * dot_count + ball_count) \div (2 * ball_count), d |-> 10])

NoDotFields == [f \in {} |-> 0]

\* the dot-ball fields set on rec from the entry found, none when no entry
\* was found or it has no tracked ball
DotFieldsAt(lk, i) ==
    IF i = 0 THEN NoDotFields
    ELSE IF lk[i].balls <= 0 THEN NoDotFields
    ELSE [bat_dot_balls |-> lk[i].dots, bat_bbp_balls |-> lk[i].balls,
          bat_dot_pct |-> DotPct(lk[i].dots, lk[i].balls)]

\* an enrichment that sets the fields, with zero counts, also when it has
\* nothing to look up
DotFieldsZeroWhenMissing(name, dot_lookup) ==
    IF dot_lookup = <<>>
    THEN [bat_dot_balls |-> 0, bat_bbp_balls |-> 0, bat_dot_pct |-> IntNum(0)]
    ELSE DotFieldsAt(dot_lookup, DotIndex(name, dot_lookup))

DotFields(name, dot_lookup) ==
    IF dot_lookup = <<>> THEN NoDotFields
    ELSE DotFieldsAt(dot_lookup, DotIndex(name, dot_lookup))

Enriched(rec, dot_lookup) ==
    IF rec = None THEN None ELSE <<DotFields(rec[1].Name, dot_lookup) @@ rec[1]>>

\* meta is None or <<the match metadata>>; dot_lookup is the ordered
\* name -> counts table made from parse_ball_by_ball, <<>> when there is none
parse_batting_row(cs, mid, dot_lookup, meta, position) ==
    Enriched(BattingRecord(BattingOf(cs), mid, meta, position), dot_lookup)

-----------------------------------------------------------------------------
(* Bowling Row Extractor                                                   *)

RECURSIVE NumishCells(_)
\* [c for c in tail if is_numish(c)]
NumishCells(tail) ==
    IF tail = <<>> THEN <<>>
    ELSE (IF is_numish(Head(tail)) THEN <<Head(tail)>> ELSE <<>>) \o NumishCells(Tail(tail))

RECURSIVE OtherCells(_)
\* [x for x in tail if not is_numish(x)]
OtherCells(tail) ==
    IF tail = <<>> THEN <<>>
    ELSE (IF is_numish(Head(tail)) THEN <<>> ELSE <<Head(tail)>>) \o OtherCells(Tail(tail))

\* slots filled by position, a cell that is no number leaving its slot empty
BowlingSlotsByPosition(tail) ==
    [i \in 1..6 |-> IF i <= Len(tail) /\ is_numish(tail[i]) THEN FloatOfNumish(tail[i]) ELSE NaN]

\* vals: the first six numeric tokens of the tail as floats, padded with NaN
BowlingSlots(tail) ==
    LET nums == NumishCells(tail) IN
    [i \in 1..6 |-> IF i <= Len(nums) THEN FloatOfNumish(nums[i]) ELSE NaN]

\* "shift-left fix": <<o, m, dot, r, w, econ>> from vals
ShiftLeft(vals) ==
    IF isna(vals[1]) /\ \A i \in 2..5 : notna(vals[i])
    THEN <<vals[2], vals[3], vals[4], vals[5], vals[6], vals[6]>>
    ELSE vals

\* "econ fallback as last numeric"
EconFallback(loc, nums) ==
    IF (isna(loc[6]) \/ Lt(loc[6], Half)) /\ Len(nums) >= 6
    THEN [loc EXCEPT ![6] = FloatOfNumish(nums[6])]
    ELSE loc

\* the digits that follow the label l standing at i, "" when l does not
\* stand there or no digit follows
DigitsAfter(t, k) == IF DigitRunEnd(t, k) >= k THEN SubSeq(t, k, DigitRunEnd(t, k)) ELSE ""

LabelDigits(t, i, l) == IF MatchAt(t, i, l) THEN DigitsAfter(t, SkipSpaces(t, i + Len(l))) ELSE ""

FirstLabel(t, i, labels, first) == IF first = 0 THEN "" ELSE LabelDigits(t, i, labels[first])

\* rf"\b{symbol}\s*(\d+)" tried at i, the symbol's alternatives in pattern
\* order: the digits or ""
LabelThenNumberAt(t, i, labels) ==
    IF WordB(t, i)
    THEN FirstLabel(t, i, labels,
                    Min0({j \in 1..Len(labels) : LabelDigits(t, i, labels[j]) # ""}))
    ELSE ""

NumberBefore(t, i, e, labels) ==
    IF e >= i /\ \E j \in 1..Len(labels) : MatchAt(t, SkipSpaces(t, e + 1), labels[j])
    THEN SubSeq(t, i, e) ELSE ""

\* rf"(\d+)\s*{symbol}" tried at i, the digits or ""
NumberThenLabelAt(t, i, labels) == NumberBefore(t, i, DigitRunEnd(t, i), labels)

ExtraAt(t, labels, h1, h2) ==
    IF h1 > 0 THEN IntOf(LabelThenNumberAt(t, h1, labels))
    ELSE IF h2 > 0 THEN IntOf(NumberThenLabelAt(t, h2, labels))
    ELSE 0

ExtraIn(t, labels) ==
    ExtraAt(t, labels,
            Min0({i \in 1..Len(t) : LabelThenNumberAt(t, i, labels) # ""}),
            Min0({i \in 1..Len(t) : NumberThenLabelAt(t, i, labels) # ""}))

\* _extract_extra(text, symbol), the symbol's alternatives in pattern order
extract_extra(text, labels) == ExtraIn(LowerStr(text), labels)

\* a tail test that asks for four figures but for no share of figures
NumericTailAnyShare(tail) ==
    /\ tail # <<>>
    /\ Len(NumishCells(tail)) >= 4

\* the tail passes the numeric-dominance gate
NumericTail(tail) ==
    /\ tail # <<>>
    /\ 10 * Len(NumishCells(tail)) >= 8 * Len(tail)
    /\ Len(NumishCells(tail)) >= 4

\* <<o, m, dot, r, w, econ>> as they stand before the econ-fallback step
BowlingShifted(tail) == ShiftLeft(BowlingSlots(tail))

\* how many of the six figures are present
BowlingScore(v) ==
    Present(v[1]) + Present(v[2]) + Present(v[3]) + Present(v[4]) + Present(v[5]) + Present(v[6])

\* the checks and the record that follow the econ fallback; v = <<o, .., econ>>
BowlingChecked(raw_name, v, extras_text) ==
    IF ~plausible_bowling(v[1], v[2], v[3], v[4], v[5], v[6]) THEN None
    ELSE IF BowlingScore(v) < 4 THEN None
    ELSE <<[bowler |-> title_clean(raw_name),
            o |-> v[1], m |-> v[2], dot |-> v[3], r |-> v[4], w |-> v[5], econ |-> v[6],
            Wd |-> extract_extra(extras_text, <<"wd", "w">>),
            Nb |-> extract_extra(extras_text, <<"nb">>),
            score |-> BowlingScore(v)]>>

BowlingTail(raw_name, tail) ==
    IF ~NumericTail(tail) THEN None
    ELSE BowlingChecked(raw_name, EconFallback(BowlingShifted(tail), NumishCells(tail)),
                        JoinCells(OtherCells(tail)))

BowlingNamed(cs, name_idx) ==
    IF name_idx = 0 THEN None
    ELSE BowlingTail(cs[name_idx], SubSeq(cs, name_idx + 1, Len(cs)))

\* the bowler and the validated figures of the row, None when it is rejected
BowlingCandidate(cs) ==
    IF DISMISS_ANY(JoinCells(cs)) > 0 THEN None
    ELSE BowlingNamed(cs, FirstIdx(cs, looks_name))

\* BowlingCandidate over the rows the table loop reads, evaluated once
BowlingCandidates == [r \in LoopRows |-> BowlingCandidate(r)]

BowlingOf(cs) == IF cs \in LoopRows THEN BowlingCandidates[cs] ELSE BowlingCandidate(cs)

BowlingRecord(c, mid) == IF c = None THEN None ELSE <<[match_id |-> mid] @@ c[1]>>

parse_bowling_row(cs, mid) == BowlingRecord(BowlingOf(cs), mid)

LocalsTail(tail) == IF ~NumericTail(tail) THEN None ELSE <<BowlingShifted(tail)>>

LocalsNamed(cs, name_idx) ==
    IF name_idx = 0 THEN None ELSE LocalsTail(SubSeq(cs, name_idx + 1, Len(cs)))

\* the locals (o, m, dot, r, w, econ) of parse_bowling_row when it reaches the
\* econ-fallback step, None when the row was rejected before it
BowlingLocals(cs) ==
    IF DISMISS_ANY(JoinCells(cs)) > 0 THEN None
    ELSE LocalsNamed(cs, FirstIdx(cs, looks_name))

-----------------------------------------------------------------------------
(* Identity Resolver and Table Classifier                                  *)

RECURSIVE load_roster(_)
\* the canon -> display map of the names of the players file, in file order
\* (a later row with the same key replaces an earlier one)
load_roster(names) ==
    IF names = <<>> THEN <<>>
    ELSE LET before == load_roster(SubSeq(names, 1, Len(names) - 1))
             name == names[Len(names)]
             key == canonical_name(name)
         IN  [k \in DOMAIN before \cup {key} |->
                 IF k = key THEN title_clean(name) ELSE before[k]]

\* a resolver that lets every name through, as if there were no roster
normalize_without_filter(name, roster, unknown) == [ret |-> <<name>>, unknown |-> unknown]

\* [ret |-> None or <<display name>>, unknown |-> the unknown set afterwards]
normalize_with_roster(name, roster, unknown) ==
    IF DOMAIN roster = {} THEN [ret |-> <<name>>, unknown |-> unknown]
    ELSE IF canonical_name(name) \in DOMAIN roster
         THEN [ret |-> <<roster[canonical_name(name)]>>, unknown |-> unknown]
         ELSE [ret |-> None, unknown |-> unknown \cup {title_clean(name)}]

\* text.split(word, 1)[0]
BeforeFirst(text, word) ==
    LET i == CHOOSE k \in 1..Len(text) : MatchAt(text, k, word) /\ \A j \in 1..(k - 1) : ~MatchAt(text, j, word)
    IN  SubSeq(text, 1, i - 1)

RECURSIVE LStripSet(_, _)
LStripSet(s, S) == IF s # "" /\ Ch(s, 1) \in S THEN LStripSet(Tail(s), S) ELSE s

RECURSIVE RStripSet(_, _)
RStripSet(s, S) ==
    IF s # "" /\ Ch(s, Len(s)) \in S THEN RStripSet(SubSeq(s, 1, Len(s) - 1), S) ELSE s

\* s.strip(" :-")
StripSet(s, S) == RStripSet(LStripSet(s, S), S)

RECURSIVE JoinRows(_)
\* the cells of all the rows, joined
JoinRows(rows) ==
    IF rows = <<>> THEN ""
    ELSE IF Len(rows) = 1 THEN JoinCells(rows[1])
    ELSE JoinCells(rows[1]) \o " " \o JoinRows(Tail(rows))

\* a classifier that looks for the keywords in every row of the table
detect_table_context_all_rows(rows) ==
    IF rows = <<>> THEN <<None, None>>
    ELSE IF lower(JoinRows(rows)) = "" THEN <<None, None>>
    ELSE IF Contains(lower(JoinRows(rows)), "innings")
         THEN <<<<"batting">>,
                <<canonical_name(StripSet(BeforeFirst(lower(JoinRows(rows)), "innings"),
                                          {" ", ":", "-"}))>>>>
    ELSE IF Contains(lower(JoinRows(rows)), "bowling")
         THEN <<<<"bowling">>,
                <<canonical_name(StripSet(BeforeFirst(lower(JoinRows(rows)), "bowling"),
                                          {" ", ":", "-"}))>>>>
    ELSE <<None, None>>

\* <<kind, team_owner>>, <<None, None>> when the table is neither
detect_table_context(rows) ==
    IF rows = <<>> THEN <<None, None>>
    ELSE LET hdr == lower(JoinCells(rows[1])) IN
         IF hdr = "" THEN <<None, None>>
         ELSE IF Contains(hdr, "innings")
              THEN <<<<"batting">>, <<canonical_name(StripSet(BeforeFirst(hdr, "innings"), {" ", ":", "-"}))>>>>
         ELSE IF Contains(hdr, "bowling")
              THEN <<<<"bowling">>, <<canonical_name(StripSet(BeforeFirst(hdr, "bowling"), {" ", ":", "-"}))>>>>
         ELSE <<None, None>>

-----------------------------------------------------------------------------
(* Spec: main()'s loop over the tables of one match                        *)

MaxTables == 2
MaxRows == 3

EmptyMeta ==
    [match_date |-> None, match_type |-> None, is_playoff |-> FALSE,
     series |-> None, ground |-> None, toss_winner |-> None, toss_decision |-> None,
     player_of_match |-> None, match_result |-> None, result_margin |-> None,
     opponent_team |-> None]

\* the players file: absent, or some names
RosterFiles == {<<>>, <<"Amit", "ravi", "Imran">>}

TeamNames == {"", "Strikers"}

MatchIds == {7, 8}

\* what parse_match_metadata and parse_match_result gave for a match whose
\* pages told everything
FilledMeta ==
    [match_date |-> <<"2024-03-09">>, match_type |-> <<"League">>, is_playoff |-> FALSE,
     series |-> <<"Spring Cup">>, ground |-> <<"Oval">>, toss_winner |-> <<"Strikers">>,
     toss_decision |-> <<"bat">>, player_of_match |-> <<"Amit">>,
     match_result |-> <<"Win">>, result_margin |-> <<"5 runs">>,
     opponent_team |-> <<"Riders">>]

\* the metadata of the matches main() is given: the pages of match 7 told
\* nothing, those of the others everything
MatchMeta(mid) == IF mid = 7 THEN EmptyMeta ELSE FilledMeta

\* [A-Za-z\s\.]
IsBallNameCh(c) == IsAlpha(c) \/ IsSpace(c) \/ c = "."

RECURSIVE SepRunEnd(_, _)
\* [,\s]+: the last position of the run of commas and whitespace that starts at i
SepRunEnd(s, i) ==
    IF i <= Len(s) /\ (IsSpace(Ch(s, i)) \/ Ch(s, i) = ",") THEN SepRunEnd(s, i + 1)
    ELSE i - 1

BallHeadC(s, b, c) == IF c > b + 1 /\ IsAlpha(ChAt(s, c)) THEN c ELSE 0

BallHeadB(s, a, b) == IF b >= a + 2 THEN BallHeadC(s, b, SkipSpaces(s, b + 1)) ELSE 0

BallHeadA(s, i, a) ==
    IF a >= i /\ ChAt(s, a + 1) = "." THEN BallHeadB(s, a, DigitRunEnd(s, a + 2)) ELSE 0

\* (\d+)\.(\d+)\s+ at i with a letter behind it: the letter's position, 0 without
BallHead(s, i) == BallHeadA(s, i, DigitRunEnd(s, i))

ToAfterB(s, v, t) == IF t > v /\ IsAlpha(ChAt(s, t)) THEN t ELSE 0

ToAfterA(s, e, u) ==
    IF u > e + 1 /\ LowerStr(ChAt(s, u) \o ChAt(s, u + 1)) = "to"
    THEN ToAfterB(s, u + 2, SkipSpaces(s, u + 2))
    ELSE 0

\* \s+to\s+ behind position e with a letter behind it: the letter's position
ToAfter(s, e) == ToAfterA(s, e, SkipSpaces(s, e + 1))

RECURSIVE BatsmanEnd(_, _)
\* ([A-Za-z][A-Za-z\s\.]+?)(?:[,\s]+|$): the lazy group ends at the first
\* position f that has a comma, whitespace or the end behind it; 0 without
BatsmanEnd(s, f) ==
    IF f > Len(s) \/ ~IsBallNameCh(Ch(s, f)) THEN 0
    ELSE IF f = Len(s) \/ IsSpace(Ch(s, f + 1)) \/ Ch(s, f + 1) = "," THEN f
    ELSE BatsmanEnd(s, f + 1)

RECURSIVE BowlerEnd(_, _)
RECURSIVE BowlerEndAt(_, _, _)
\* ([A-Za-z][A-Za-z\s\.]+?)\s+to\s+...: the lazy group ends at the first
\* position e behind which the rest of the pattern matches; the match is
\* <<start of the batsman, end of the batsman>>, <<>> without
BowlerEnd(s, e) ==
    IF e > Len(s) \/ ~IsBallNameCh(Ch(s, e)) THEN <<>>
    ELSE BowlerEndAt(s, e, ToAfter(s, e))

BowlerEndAt(s, e, t) ==
    IF t # 0 /\ BatsmanEnd(s, t + 1) # 0 THEN <<t, BatsmanEnd(s, t + 1)>>
    ELSE BowlerEnd(s, e + 1)

BallMatchFrom(s, c) == IF c = 0 THEN <<>> ELSE BowlerEnd(s, c + 1)

\* ball_pattern matched at position i
BallMatchAt(s, i) == BallMatchFrom(s, BallHead(s, i))

RECURSIVE NextBall(_, _)
RECURSIVE NextBallOr(_, _, _)
\* re.finditer: the first match at or behind position p
NextBall(s, p) == IF p > Len(s) THEN <<>> ELSE NextBallOr(s, p, BallMatchAt(s, p))

NextBallOr(s, p, m) == IF m # <<>> THEN m ELSE NextBall(s, p + 1)

\* match.end(), as the last position of the match
MatchEnd(s, f) == IF f = Len(s) THEN f ELSE SepRunEnd(s, f + 1)

\* text[match_end:match_end+50].lower()
NextText(s, m) ==
    LowerStr(SubSeq(s, m + 1, IF m + 50 <= Len(s) THEN m + 50 ELSE Len(s)))

\* "wide" in next_text or " wd" in next_text or next_text.strip().startswith("wd")
IsWide(next_text) ==
    \/ Contains(next_text, "wide")
    \/ Contains(next_text, " wd")
    \/ StartsWith(Strip(next_text), "wd")

RunDigits(nt, k, d, sign) ==
    IF d >= k /\ SkipSpaces(nt, d + 1) > d + 1 /\ MatchAt(nt, SkipSpaces(nt, d + 1), "run")
    THEN <<sign * IntOf(SubSeq(nt, k, d))>>
    ELSE <<>>

RunNumber(nt, k) ==
    IF ChAt(nt, k) = "-" THEN RunDigits(nt, k + 1, DigitRunEnd(nt, k + 1), -1)
    ELSE RunDigits(nt, k, DigitRunEnd(nt, k), 1)

\* ,\s*(-?\d+)\s+run at position j: <<the number>>, <<>> without
RunAt(nt, j) == IF ChAt(nt, j) = "," THEN RunNumber(nt, SkipSpaces(nt, j + 1)) ELSE <<>>

RECURSIVE RunSearch(_, _)
\* re.search(r',\s*(-?\d+)\s+run', next_text)
RunSearch(nt, j) ==
    IF j > Len(nt) THEN <<>>
    ELSE IF RunAt(nt, j) # <<>> THEN RunAt(nt, j)
    ELSE RunSearch(nt, j + 1)

NoBallWord(nt, k) ==
    \/ MatchAt(nt, k, "nb")
    \/ /\ MatchAt(nt, k, "no")
       /\ SkipSpaces(nt, k + 2) > k + 2
       /\ MatchAt(nt, SkipSpaces(nt, k + 2), "ball")

\* (\d+)\s*(?:nb|no\s+ball) at position j: <<the number>>, <<>> without
NoBallAt(nt, j, d) ==
    IF d >= j /\ NoBallWord(nt, SkipSpaces(nt, d + 1)) THEN <<IntOf(SubSeq(nt, j, d))>>
    ELSE <<>>

RECURSIVE NoBallSearch(_, _)
\* re.search(r'(\d+)\s*(?:nb|no\s+ball)', next_text)
NoBallSearch(nt, j) ==
    IF j > Len(nt) THEN <<>>
    ELSE IF NoBallAt(nt, j, DigitRunEnd(nt, j)) # <<>> THEN NoBallAt(nt, j, DigitRunEnd(nt, j))
    ELSE NoBallSearch(nt, j + 1)

BallRunsOr(nt, run_match) ==
    IF run_match # <<>> THEN run_match[1]
    ELSE IF NoBallSearch(nt, 1) # <<>> THEN NoBallSearch(nt, 1)[1]
    ELSE 0

\* the runs read from the text behind a delivery, 0 when none are found
BallRuns(next_text) == BallRunsOr(next_text, RunSearch(next_text, 1))

\* entry = counts.setdefault(batter, {"balls": 0, "dots": 0}); balls += 1;
\* dots += 1 when runs == 0.  The dict is held in its insertion order.
CountBall(cnt, batter, runs) ==
    IF \E i \in 1..Len(cnt) : cnt[i].name = batter
    THEN [i \in 1..Len(cnt) |->
            IF cnt[i].name = batter
            THEN [cnt[i] EXCEPT !.balls = @ + 1, !.dots = IF runs = 0 THEN @ + 1 ELSE @]
            ELSE cnt[i]]
    ELSE Append(cnt, [name |-> batter, balls |-> 1, dots |-> IF runs = 0 THEN 1 ELSE 0])

\* a batsman's name shorter than two characters is passed over
BatsmanCounted(cnt, batsman, runs) ==
    IF Len(batsman) < 2 THEN cnt ELSE CountBall(cnt, batsman, runs)

\* one match of ball_pattern: passed over when the text behind it tells of a wide
BallCounted(s, cnt, m, next_text) ==
    IF IsWide(next_text) THEN cnt
    ELSE BatsmanCounted(cnt, title_clean(Strip(SubSeq(s, m[1], m[2]))), BallRuns(next_text))

RECURSIVE ElementBalls(_, _, _)
RECURSIVE ElementBall(_, _, _)
\* for match in re.finditer(ball_pattern, text, re.IGNORECASE)
ElementBalls(s, p, cnt) == ElementBall(s, cnt, NextBall(s, p))

ElementBall(s, cnt, m) ==
    IF m = <<>> THEN cnt
    ELSE ElementBalls(s, MatchEnd(s, m[2]) + 1,
                      BallCounted(s, cnt, m, NextText(s, MatchEnd(s, m[2]))))

\* one detail element: its text is read when it has ten characters or more
DetailElement(cnt, text) == IF Len(text) < 10 THEN cnt ELSE ElementBalls(text, 1, cnt)

BatHeaderWords == {"batsman", "striker", "batter", "player"}
RunHeaderWords == {"run", "result", "runs", "score", "r"}

\* next((i for i, h in enumerate(headers) if any(x in h for x in words)), None),
\* counted from 1, 0 for None
HeaderIdx(headers, words) ==
    Min0({i \in 1..Len(headers) : \E x \in words : Contains(headers[i], x)})

is_over_format(headers) ==
    /\ Len(headers) >= 2
    /\ Contains(headers[1], "over")
    /\ \E i \in 2..Len(headers) : i <= 3 /\ Len(headers[i]) > 2

\* re.search(r"(-?\d+)", run_text) is some digit; runs = int(m.group(1)) if m else 0
FirstDigit(t) == Min0({i \in 1..Len(t) : IsDigit(Ch(t, i))})

RunTextRunsAt(t, d) ==
    IF d = 0 THEN 0
    ELSE IF ChAt(t, d - 1) = "-" THEN 0 - IntOf(SubSeq(t, d, DigitRunEnd(t, d)))
    ELSE IntOf(SubSeq(t, d, DigitRunEnd(t, d)))

RunTextRuns(run_text) == RunTextRunsAt(run_text, FirstDigit(run_text))

\* one row of a batsman/runs table
TableRowCounted(cnt, batter, run_text) ==
    IF batter = "" \/ run_text = "" THEN cnt
    ELSE IF Contains(run_text, "wide") \/ Contains(run_text, "wd") THEN cnt
    ELSE CountBall(cnt, batter, RunTextRuns(run_text))

TableRow(cnt, tds, idx_bat, idx_runs) ==
    IF Len(tds) < idx_bat \/ Len(tds) < idx_runs THEN cnt
    ELSE TableRowCounted(cnt, title_clean(norm(tds[idx_bat])), lower(norm(tds[idx_runs])))

RECURSIVE TableRows(_, _, _, _)
\* for tr in tbl.find_all("tr")
TableRows(cnt, trs, idx_bat, idx_runs) ==
    IF trs = <<>> THEN cnt
    ELSE TableRows(TableRow(cnt, trs[1], idx_bat, idx_runs), Tail(trs), idx_bat, idx_runs)

BallTableAt(cnt, tbl, idx_bat, idx_runs) ==
    IF idx_bat = 0 \/ idx_runs = 0 THEN cnt ELSE TableRows(cnt, tbl.rows, idx_bat, idx_runs)

BallTableWith(cnt, tbl, headers) ==
    IF headers = <<>> \/ is_over_format(headers) THEN cnt
    ELSE BallTableAt(cnt, tbl, HeaderIdx(headers, BatHeaderWords),
                     HeaderIdx(headers, RunHeaderWords))

\* one table of the fragment: the cells of its th elements and, row by row,
\* the cells of its td elements
BallTable(cnt, tbl) ==
    BallTableWith(cnt, tbl, [i \in 1..Len(tbl.headers) |-> lower(tbl.headers[i])])

RECURSIVE DetailElements(_, _)
DetailElements(cnt, texts) ==
    IF texts = <<>> THEN cnt ELSE DetailElements(DetailElement(cnt, texts[1]), Tail(texts))

RECURSIVE BallTables(_, _)
BallTables(cnt, tbls) ==
    IF tbls = <<>> THEN cnt ELSE BallTables(BallTable(cnt, tbls[1]), Tail(tbls))

\* a ball-by-ball fragment is held as the texts of its detail elements and its
\* tables, both in document order; None is the missing fragment
parse_ball_by_ball(ball_html) ==
    IF ball_html = <<>> THEN <<>>
    ELSE BallTables(DetailElements(<<>>, ball_html[1].elements), ball_html[1].tables)

\* the ball-by-ball fragment of a match: one detail element for a delivery
BallFragment ==
    [elements |-> <<"0.1 Dev P to amit K, 0 run", "0.2 Dev P to amit K, 1 run",
                    "0.3 Dev P to Ravi S, 4 runs">>,
     tables |-> <<>>]

\* match.get("ball_html"): match 7 came without the fragment
BallHtml(mid) == IF mid = 7 THEN None ELSE <<BallFragment>>

\* dot_lookup = {title_clean(k): v for k, v in dots_raw.items()}
DotLookup(dots_raw) ==
    [i \in 1..Len(dots_raw) |-> [dots_raw[i] EXCEPT !.name = title_clean(@)]]

\* the tables of the matches, made once
DotLookups == [mid \in MatchIds |-> DotLookup(parse_ball_by_ball(BallHtml(mid)))]

NoRow == [row |-> <<>>, parsed |-> None, emitted |-> FALSE]

RowIdle ==
    /\ cells = <<>>
    /\ br = None
    /\ wr = None
    /\ slots = None
    /\ rowpc = "idle"

ContextIdle ==
    /\ tbl_rows = <<>>
    /\ context = <<None, None>>
    /\ ctxpc = "idle"

SplitIdle ==
    /\ cell_text = ""
    /\ split_out = <<"", "">>
    /\ splitpc = "idle"

PureIdle == ContextIdle /\ SplitIdle /\ LaterIdle

DateIdle ==
    /\ date_raw = ""
    /\ date_out = None
    /\ stored_date = None
    /\ datepc = "idle"

TossIdle ==
    /\ toss_text = None
    /\ toss_winner = None
    /\ toss_decision = None
    /\ tosspc = "idle"

NoResult == [match_result |-> None, result_margin |-> None, opponent_team |-> None]

ResultIdle ==
    /\ full_html = [text |-> "", elements |-> <<>>]
    /\ tables_html = <<>>
    /\ info_html = <<>>
    /\ result_info = NoResult
    /\ result_again = NoResult
    /\ respc = "idle"

MetaIdle == DateIdle /\ team_name = "" /\ TossIdle /\ ResultIdle

MainIdle ==
    /\ roster_map = <<>>
    /\ team_key = ""
    /\ match_meta = EmptyMeta
    /\ match_id = 0
    /\ pc = "idle"
    /\ header = <<>>
    /\ kind = None
    /\ row_idx = 0
    /\ batting_position = 0
    /\ bats = <<>> /\ bowls = <<>>
    /\ unknown_batters = {} /\ unknown_bowlers = {}
    /\ bat_rows = <<>> /\ bowl_rows = <<>>
    /\ last = NoRow
    /\ n_tables = 0 /\ n_rows = 0

\* detect_table_context over the tables main() can meet, evaluated once
TableContexts == [hdr \in Headers |-> detect_table_context(<<hdr>>)]

\* kind, owner = detect_table_context(rows) of the table with first row hdr
TableContextOf(hdr) ==
    IF hdr \in Headers THEN TableContexts[hdr] ELSE detect_table_context(<<hdr>>)

\* a loop that works through every batting and bowling table, whose ever
ProcessedCtxAnyOwner(ctx) == ctx[1] \in {<<"batting">>, <<"bowling">>}

\* ctx = <<kind, owner>> of a table main() works through
ProcessedCtx(ctx) ==
    /\ ctx[1] \in {<<"batting">>, <<"bowling">>}
    /\ team_key # "" =>
         IF ctx[2][1] # "" THEN Contains(ctx[2][1], team_key)
         ELSE DOMAIN roster_map # {}

\* the table with header hdr is one main() works through
Processed(hdr) == ProcessedCtx(TableContextOf(hdr))

\* the metadata fields main() stamps on a record
Stamp(rec) ==
    [series |-> match_meta.series, ground |-> match_meta.ground,
     toss_winner |-> match_meta.toss_winner, toss_decision |-> match_meta.toss_decision,
     player_of_match |-> match_meta.player_of_match,
     match_result |-> match_meta.match_result,
     opponent_team |-> match_meta.opponent_team] @@ rec

\* a record without its "_score"
Unscored(rec) == [f \in DOMAIN rec \ {"score"} |-> rec[f]]


Init ==
    /\ roster_map \in {load_roster(f) : f \in RosterFiles}
    /\ team_key \in {IF t = "" THEN "" ELSE canonical_name(title_clean(t)) : t \in TeamNames}
    /\ match_id \in MatchIds
    /\ match_meta = MatchMeta(match_id)
    /\ pc = "tables"
    /\ header = <<>>
    /\ kind = None
    /\ row_idx = 0
    /\ batting_position = 0
    /\ bats = <<>> /\ bowls = <<>>
    /\ unknown_batters = {} /\ unknown_bowlers = {}
    /\ bat_rows = <<>> /\ bowl_rows = <<>>
    /\ last = NoRow
    /\ n_tables = 0 /\ n_rows = 0
    /\ RowIdle
    /\ MetaIdle
    /\ PureIdle

\* a table that is neither batting nor bowling, or not the configured team's:
\* its rows and its kind are read, none of its rows is processed
SkipTable ==
    /\ pc = "tables"
    /\ n_tables < MaxTables
    /\ \E hdr \in Headers :
         /\ ~Processed(hdr)
         /\ header' = hdr
         /\ kind' = TableContextOf(hdr)[1]
    /\ row_idx' = 0
    /\ n_tables' = n_tables + 1
    /\ UNCHANGED <<roster_map, team_key, match_meta, match_id, pc,
                   batting_position, bats, bowls, unknown_batters, unknown_bowlers,
                   bat_rows, bowl_rows, last, n_rows, rowVars, metaVars, pureVars>>

BeginTable ==
    /\ pc = "tables"
    /\ n_tables < MaxTables
    /\ \E hdr \in Headers :
         /\ Processed(hdr)
         /\ header' = hdr
         /\ kind' = TableContextOf(hdr)[1]
    /\ batting_position' = 0
    /\ row_idx' = 0
    /\ pc' = "rows"
    /\ n_tables' = n_tables + 1
    /\ UNCHANGED <<roster_map, team_key, match_meta, match_id, bats, bowls,
                   unknown_batters, unknown_bowlers, bat_rows, bowl_rows, last, n_rows,
                   rowVars, metaVars, pureVars>>

\* the rows the loop can meet next: rows[0] is the header row itself
NextRows == IF row_idx = 0 THEN {header} ELSE IF n_rows < MaxRows THEN MainRows ELSE {}

Counted == IF row_idx = 0 THEN n_rows ELSE n_rows + 1

\* where an emitted record came from: the table and its first row, the row's
\* index in the table, the row
Source(r) == [table |-> n_tables, header |-> header, idx |-> row_idx, row |-> r]

\* the parsed batting row b against the roster: nz is normalize_with_roster's
\* <<returned name, unknown set>>
BattingKept(r, position, b, nz) ==
    IF nz.ret = None
    THEN /\ batting_position' = position - 1
         /\ unknown_batters' = nz.unknown
         /\ last' = [row |-> r, parsed |-> b, emitted |-> FALSE]
         /\ UNCHANGED <<bats, bat_rows>>
    ELSE /\ batting_position' = position
         /\ unknown_batters' = nz.unknown
         /\ bats' = Append(bats, Unscored(Stamp([b[1] EXCEPT !.Name = nz.ret[1]])))
         /\ bat_rows' = Append(bat_rows, Source(r))
         /\ last' = [row |-> r, parsed |-> b, emitted |-> TRUE]

\* a loop body that leaves the counter advanced when the row is rejected
BattingParsedNoUndo(r, position, b) ==
    IF b = None
    THEN /\ batting_position' = position
         /\ last' = [row |-> r, parsed |-> None, emitted |-> FALSE]
         /\ UNCHANGED <<bats, bat_rows, unknown_batters>>
    ELSE BattingKept(r, position, b,
                     normalize_with_roster(b[1].Name, roster_map, unknown_batters))

BattingParsed(r, position, b) ==
    IF b = None
    THEN /\ batting_position' = position - 1
         /\ last' = [row |-> r, parsed |-> None, emitted |-> FALSE]
         /\ UNCHANGED <<bats, bat_rows, unknown_batters>>
    ELSE BattingKept(r, position, b,
                     normalize_with_roster(b[1].Name, roster_map, unknown_batters))

\* one pass of "for r in rows" in a batting table
BattingRow ==
    /\ pc = "rows"
    /\ kind = <<"batting">>
    /\ \E r \in NextRows :
         BattingParsed(r, batting_position + 1,
                       parse_batting_row(r, match_id, DotLookups[match_id], <<match_meta>>,
                                         batting_position + 1))
    /\ n_rows' = Counted
    /\ row_idx' = row_idx + 1
    /\ UNCHANGED <<roster_map, team_key, match_meta, match_id, pc, header, kind,
                   bowls, unknown_bowlers, bowl_rows, n_tables, rowVars, metaVars, pureVars>>

BowlingKept(r, w, nz) ==
    IF nz.ret = None
    THEN /\ unknown_bowlers' = nz.unknown
         /\ last' = [row |-> r, parsed |-> w, emitted |-> FALSE]
         /\ UNCHANGED <<bowls, bowl_rows>>
    ELSE /\ unknown_bowlers' = nz.unknown
         /\ bowls' = Append(bowls, Unscored(Stamp([w[1] EXCEPT !.bowler = nz.ret[1]])))
         /\ bowl_rows' = Append(bowl_rows, Source(r))
         /\ last' = [row |-> r, parsed |-> w, emitted |-> TRUE]

BowlingParsed(r, w) ==
    IF w = None
    THEN /\ last' = [row |-> r, parsed |-> None, emitted |-> FALSE]
         /\ UNCHANGED <<bowls, bowl_rows, unknown_bowlers>>
    ELSE BowlingKept(r, w, normalize_with_roster(w[1].bowler, roster_map, unknown_bowlers))

\* one pass of "for r in rows" in a bowling table
BowlingRow ==
    /\ pc = "rows"
    /\ kind = <<"bowling">>
    /\ \E r \in NextRows : BowlingParsed(r, parse_bowling_row(r, match_id))
    /\ n_rows' = Counted
    /\ row_idx' = row_idx + 1
    /\ UNCHANGED <<roster_map, team_key, match_meta, match_id, pc, header, kind,
                   batting_position, bats, unknown_batters, bat_rows, n_tables, rowVars, metaVars, pureVars>>

\* the table's rows are exhausted
EndTable ==
    /\ pc = "rows"
    /\ row_idx >= 1
    /\ pc' = "tables"
    /\ UNCHANGED <<roster_map, team_key, match_meta, match_id, header, kind, row_idx,
                   batting_position, bats, bowls, unknown_batters, unknown_bowlers,
                   bat_rows, bowl_rows, last, n_tables, n_rows, rowVars, metaVars, pureVars>>

Next == SkipTable \/ BeginTable \/ BattingRow \/ BowlingRow \/ EndTable

Spec == Init /\ [][Next]_vars

-----------------------------------------------------------------------------
(* Properties of main()'s table loop (Spec)                                *)

\* the records emitted so far, up to the i-th, that came from the same table
\* as the i-th
SameTableUpTo(i) == {j \in 1..i : bat_rows[j].table = bat_rows[i].table}

\* C1: within one batting table the Batting_Position values of the emitted
\* records are, in emission order, 1, 2, ..., k without gap or repeat, and
\* the counter stands at the number of records the table has emitted so far:
\* rows that were rejected or dropped by the roster filter consumed nothing,
\* and the count starts again at each table.
C1_PositionsCount ==
    /\ \A i \in 1..Len(bats) : bats[i].Batting_Position = Cardinality(SameTableUpTo(i))
    /\ (pc = "rows" /\ kind = <<"batting">>) =>
          batting_position = Cardinality({j \in 1..Len(bats) : bat_rows[j].table = n_tables})

\* two records of one table with a row between them that was not emitted,
\* the later one at the position after the earlier one
C1_Witness ==
    \E i \in 1..(Len(bats) - 1) :
        /\ bat_rows[i + 1].table = bat_rows[i].table
        /\ bat_rows[i + 1].idx > bat_rows[i].idx + 1
        /\ bats[i + 1].Batting_Position = bats[i].Batting_Position + 1

\* the canonical key of the name each extractor reads from a row of the
\* loop, "" for a row it rejects; made once
BattingKeys ==
    [r \in LoopRows |-> IF BattingOf(r) = None THEN "" ELSE canonical_name(BattingOf(r)[1].name)]

BowlingKeys ==
    [r \in LoopRows |-> IF BowlingOf(r) = None THEN "" ELSE canonical_name(BowlingOf(r)[1].bowler)]

\* the canonical key of the name of the row the loop read last
LastKey == IF "Name" \in DOMAIN last.parsed[1] THEN BattingKeys[last.row] ELSE BowlingKeys[last.row]

\* the name a row extractor gave the row the loop read last
LastName == IF "Name" \in DOMAIN last.parsed[1] THEN last.parsed[1].Name ELSE last.parsed[1].bowler

LastUnknown == IF "Name" \in DOMAIN last.parsed[1] THEN unknown_batters ELSE unknown_bowlers

\* C2: with a non-empty roster a parsed row whose canonical key is no roster
\* key is not emitted and its name is in the unknown set, and every emitted
\* record carries the roster's display name of its key; with an empty roster
\* every parsed row is emitted under its own name and the unknown sets stay
\* empty.
C2_RosterFilter ==
    IF DOMAIN roster_map # {}
    THEN /\ \A i \in 1..Len(bats) :
              /\ BattingKeys[bat_rows[i].row] \in DOMAIN roster_map
              /\ bats[i].Name = roster_map[BattingKeys[bat_rows[i].row]]
         /\ \A i \in 1..Len(bowls) :
              /\ BowlingKeys[bowl_rows[i].row] \in DOMAIN roster_map
              /\ bowls[i].bowler = roster_map[BowlingKeys[bowl_rows[i].row]]
         /\ (last.parsed # None /\ LastKey \notin DOMAIN roster_map) =>
              ~last.emitted /\ LastName \in LastUnknown
    ELSE /\ \A i \in 1..Len(bats) : bats[i].Name = BattingOf(bat_rows[i].row)[1].name
         /\ \A i \in 1..Len(bowls) : bowls[i].bowler = BowlingOf(bowl_rows[i].row)[1].bowler
         /\ last.parsed # None => last.emitted
         /\ unknown_batters = {} /\ unknown_bowlers = {}

\* a roster is loaded, a batter outside it was dropped and one inside it was
\* emitted
C2_Witness ==
    /\ DOMAIN roster_map # {}
    /\ unknown_batters # {}
    /\ bats # <<>>
    /\ last.parsed # None /\ ~last.emitted


-----------------------------------------------------------------------------
(* SpecRow: the two row extractors, applied to one row of a scorecard table *)

MaxBatTail == 3
MaxBowlTail == 5

\* first cells: a name, a name with its dismissal, noise rows, a blank
FirstCells == {"Amit", "Raj not out", "Extras", "O", ""}

BatCells == {"45(30)", "7", "45", "250", "130", "150.00"}

BowlCells == {"3", "18", "6.0"}

RECURSIVE SeqsUpTo(_, _)
\* the sequences over S of length at most k
SeqsUpTo(S, k) ==
    IF k = 0 THEN {<<>>}
    ELSE SeqsUpTo(S, k - 1) \cup {Append(q, x) : q \in {r \in SeqsUpTo(S, k - 1) : Len(r) = k - 1}, x \in S}

\* rows a scorecard can hold that the positional rules were written for
CuratedRows ==
    {<<"Imran", "4", "0", "12", "24", "2", "1 wd", "1 nb">>,
     <<"Imran", "4", "0", "24", "2", "1 wd">>,
     <<"Imran", "-", "3", "2", "18", "1", "6.0">>,
     <<"Imran", "", "3", "2", "18", "1", "6.0">>,
     <<"Imran", "4", "0", "12", "24", "2", "6.00">>,
     <<"Imran", "4", "0", "12", "24", "2", "6.00", "2w 1nb">>,
     <<"Imran", "4", "0", "12", "24", "2", "0.2", "6.00">>,
     <<"Imran", "12", "0", "12", "24", "2", "6.00">>,
     <<"Imran", "4", "0", "12", "24", "2", "26.00">>,
     <<"Imran not out", "4", "0", "12", "24", "2", "6.00">>,
     <<"Dev run out", "4", "0", "12", "24", "2", "6.00">>,
     <<"Imran", "4", "0", "12", "24", "2", "6.00", "Run Out">>,
     <<"1", "Amit c Sam b Jon", "45", "30", "4", "2", "150.00">>,
     <<"Ravi c Sam b Jon", "12", "10", "1", "0", "120.00">>,
     <<"Player2", "45(30)", "4", "2", "150.00">>,
     <<"Amit", "45(30)", "4", "2", "450.00">>,
     <<"Amit", "45(30)", "4", "2", "5.00">>,
     <<"Amit", "45", "30", "32", "0", "150.00">>,
     <<"Amit", "150", "100", "4", "25", "150.00">>,
     <<"(B 0 Lb 1)", "5">>,
     <<"O", "4", "0", "12", "24", "2", "6.00">>,
     <<"r", "45", "30", "4", "2", "150.00">>,
     <<"", "R", "4", "0", "12", "24", "2", "6.00">>,
     <<"(Wd 4 Nb 1)", "45", "30", "4", "2", "150.00">>,
     <<"(Wd 4 Nb 1)", "4", "0", "12", "24", "2", "6.00">>,
     <<"7", "o", "45(30)", "4", "2", "150.00">>,
     <<"Amit", "10", "8", "1", "3", "125.00">>,
     <<"Amit", "5", "8", "0", "2", "62.50">>,
     <<"Amit", "0", "3", "2", "1">>,
     <<"Amit", "0", "3">>,
     <<"Amit", "12", "5">>,
     <<"Amit", "12.5", "10", "1", "3", "125.00">>,
     <<"Total", "145", "20">>,
     <<"", "Amit", "b Jon", "12(10)", "1", "0">>}

BattingRows == {<<c>> \o t : c \in FirstCells, t \in SeqsUpTo(BatCells, MaxBatTail)}

BowlingRows ==
    {<<c>> \o t : c \in {"Imran", "Varun Outram"},
                  t \in {q \in SeqsUpTo(BowlCells, MaxBowlTail) : Len(q) >= 4}}

Rows == BattingRows \cup BowlingRows \cup CuratedRows

InitRow ==
    /\ cells \in Rows
    /\ br = None
    /\ wr = None
    /\ slots = None
    /\ rowpc = "new"
    /\ MainIdle
    /\ MetaIdle
    /\ PureIdle

\* the row stands in a batting table
ExtractBatting ==
    /\ rowpc = "new"
    /\ br' = parse_batting_row(cells, 1, <<>>, None, 1)
    /\ rowpc' = "batting"
    /\ UNCHANGED <<cells, wr, slots, mainVars, metaVars, pureVars>>

\* the row stands in a bowling table
ExtractBowling ==
    /\ rowpc = "new"
    /\ wr' = parse_bowling_row(cells, 1)
    /\ slots' = BowlingLocals(cells)
    /\ rowpc' = "bowling"
    /\ UNCHANGED <<cells, br, mainVars, metaVars, pureVars>>

NextRow == ExtractBatting \/ ExtractBowling

SpecRow == InitRow /\ [][NextRow]_vars

-----------------------------------------------------------------------------
(* Properties of the row extractors (SpecRow)                              *)

\* the batting fields of the row as they reach the Plausibility Validator
Candidate == ClampBoundaries(BattingFields(cells, FirstIdx(cells, looks_name)))

\* x is absent or lies in [lo, hi]
Within(lo, x, hi) == isna(x) \/ (Leq(lo, x) /\ Leq(x, hi))

\* x is present and lies outside [lo, hi]
Outside(lo, x, hi) == notna(x) /\ (Lt(x, lo) \/ Lt(hi, x))

\* C3: every present numeric field of a returned record lies within the
\* validator's bounds; a candidate whose runs exceed 200, whose balls exceed
\* 120 or whose strike rate is outside [10, 400] is rejected; and the record
\* carries the validated values unchanged.
C3_PlausibleFields ==
    /\ (rowpc = "batting" /\ br # None) =>
          /\ Within(IntNum(0), br[1].Runs, IntNum(200))
          /\ Within(IntNum(0), br[1].Balls, IntNum(120))
          /\ Within(IntNum(10), br[1].SR, IntNum(400))
          /\ isna(br[1].Fours) \/ Leq(br[1].Fours, IntNum(30))
          /\ isna(br[1].Sixes) \/ Leq(br[1].Sixes, IntNum(20))
          /\ <<br[1].Runs, br[1].Balls, br[1].Fours, br[1].Sixes, br[1].SR>>
               = <<Candidate.runs, Candidate.balls, Candidate.fours, Candidate.sixes,
                   Candidate.sr>>
    /\ (/\ rowpc = "batting"
        /\ FirstIdx(cells, looks_name) > 0
        /\ \/ Outside(IntNum(0), Candidate.runs, IntNum(200))
           \/ Outside(IntNum(0), Candidate.balls, IntNum(120))
           \/ Outside(IntNum(10), Candidate.sr, IntNum(400))) => br = None
    /\ (rowpc = "bowling" /\ wr # None) =>
          /\ Within(IntNum(0), wr[1].o, IntNum(10))
          /\ Within(IntNum(0), wr[1].m, IntNum(5))
          /\ Within(IntNum(0), wr[1].dot, IntNum(36))
          /\ Within(IntNum(0), wr[1].r, IntNum(120))
          /\ Within(IntNum(0), wr[1].w, IntNum(10))
          /\ Within(Half, wr[1].econ, IntNum(20))
          /\ <<wr[1].o, wr[1].m, wr[1].dot, wr[1].r, wr[1].w>> = SubSeq(slots[1], 1, 5)

\* a named batter whose candidate runs exceed 200 was rejected
C3_Witness ==
    /\ rowpc = "batting"
    /\ cells[1] = "Amit"
    /\ Outside(IntNum(0), Candidate.runs, IntNum(200))
    /\ Within(IntNum(0), Candidate.balls, IntNum(120))
    /\ br = None

\* the keyword stands in the row's joined text, in any letter case, where a
\* word begins
KeywordAtWordStart(w) ==
    \E i \in 1..Len(JoinCells(cells)) :
        MatchAt(LowerStr(JoinCells(cells)), i, w) /\ WordB(LowerStr(JoinCells(cells)), i)

\* the keyword stands anywhere in the row's joined text, in any letter case
KeywordAnywhere(w) == Contains(LowerStr(JoinCells(cells)), w)

\* C4 (as the code has it): parse_bowling_row returns no record for a row
\* whose joined text holds "run out" or "not out", in any letter case,
\* beginning at a word boundary, whatever its numeric cells are.
C4_RejectsKeywordAtWordStart ==
    (rowpc = "bowling" /\ (KeywordAtWordStart("run out") \/ KeywordAtWordStart("not out")))
        => wr = None

\* a row with a bowler's figures and "not out" in its name cell was rejected
C4_Witness ==
    /\ rowpc = "bowling"
    /\ KeywordAtWordStart("not out")
    /\ Len(cells) = 7 /\ \A i \in 2..7 : is_numish(cells[i])
    /\ wr = None

\* C4 (as stated): no record for a row whose joined text contains "run out"
\* or "not out" anywhere.
C4_RejectsKeywordAnywhere ==
    (rowpc = "bowling" /\ (KeywordAnywhere("run out") \/ KeywordAnywhere("not out")))
        => wr = None

\* C5 (as stated): an accepted batting row with a runs(balls) cell has that
\* cell's two numbers as its Runs and Balls.
C5_RunsBallsFromPattern ==
    (rowpc = "batting" /\ br # None) =>
        \A i \in 1..Len(cells) :
            ComboMatches(norm(cells[i])) # {} =>
                <<br[1].Runs, br[1].Balls>>
                    = <<IntNum(IntOf(ComboMatch(norm(cells[i]))[1])),
                        IntNum(IntOf(ComboMatch(norm(cells[i]))[2]))>>

\* the row is a name, a cell that is no number, then 3, 2, 18, 1, 6.0
OversMissingExample ==
    /\ Len(cells) = 7
    /\ looks_name(cells[1])
    /\ ~is_numish(cells[2])
    /\ SubSeq(cells, 3, 7) = <<"3", "2", "18", "1", "6.0">>

\* the numeric tokens after the first cell, in order
NumericTokensAfterName == SelectSeq(Tail(cells), is_numish)

\* C6 (as the code has it): the six slots are filled from the tail's numeric
\* tokens in order, cells that are no numbers being dropped first, so the overs
\* slot is never absent when the shift-left step is reached and the step moves
\* nothing; for the tail [_, 3, 2, 18, 1, 6.0] the slots before the econ
\* fallback are (overs=3, maidens=2, dots=18, runs=1, wickets=6.0, econ absent).
C6_SlotsFromNumericTokens ==
    (rowpc = "bowling" /\ slots # None) =>
        /\ notna(slots[1][1])
        /\ looks_name(cells[1]) =>
             (\A i \in 1..6 :
                slots[1][i] = IF i <= Len(NumericTokensAfterName)
                              THEN FloatOfNumish(NumericTokensAfterName[i]) ELSE NaN)
        /\ OversMissingExample =>
             (slots[1] = <<IntNum(3), IntNum(2), IntNum(18), IntNum(1), IntNum(6), NaN>>)

\* the example row reached the shift-left step
C6_Witness == rowpc = "bowling" /\ OversMissingExample /\ slots # None

\* C6 (as stated): for the tail [_, 3, 2, 18, 1, 6.0] the slots before the
\* econ fallback are (overs=2, maidens=18, dots=1, runs=6.0, wickets absent,
\* econ absent).
C6_ShiftLeftExample ==
    (rowpc = "bowling" /\ OversMissingExample) =>
        slots = <<<<IntNum(2), IntNum(18), IntNum(1), IntNum(6), NaN, NaN>>>>

-----------------------------------------------------------------------------
(* Date parser                                                             *)

\* DATE_PATTERNS: the directives of each format in order, and its separator
DATE_PATTERNS ==
    <<[dirs |-> <<"m", "d", "Y">>, sep |-> "/"],
      [dirs |-> <<"m", "d", "Y">>, sep |-> "-"],
      [dirs |-> <<"b", "d", "Y">>, sep |-> " "],
      [dirs |-> <<"d", "m", "Y">>, sep |-> "/"],
      [dirs |-> <<"d", "m", "Y">>, sep |-> "-"],
      [dirs |-> <<"d", "b", "Y">>, sep |-> " "],
      [dirs |-> <<"Y", "m", "d">>, sep |-> "-"]>>

MonthAbbr == <<"jan", "feb", "mar", "apr", "may", "jun", "jul", "aug", "sep", "oct", "nov", "dec">>

RECURSIVE SplitOn(_, _)
SplitAtPos(s, sep, i) ==
    IF i = 0 THEN <<s>> ELSE <<SubSeq(s, 1, i - 1)>> \o SplitOn(SubSeq(s, i + 1, Len(s)), sep)

\* s.split(sep)
SplitOn(s, sep) == SplitAtPos(s, sep, Min0({i \in 1..Len(s) : Ch(s, i) = sep}))

\* the number a directive of strptime reads from the token between two
\* separators, 0 when the token does not match the directive: %m is 1..12 and
\* %d is 1..31 in one or two digits, %Y is four digits (year 0 is no date),
\* %b is a month's abbreviation in any letter case
DirectiveValue(dir, tok) ==
    IF dir = "b" THEN Min0({k \in 1..12 : MonthAbbr[k] = LowerStr(tok)})
    ELSE IF ~AllDigits(tok) THEN 0
    ELSE IF dir = "Y" THEN (IF Len(tok) = 4 THEN IntOf(tok) ELSE 0)
    ELSE IF Len(tok) > 2 THEN 0
    ELSE IF dir = "m" THEN (IF IntOf(tok) <= 12 THEN IntOf(tok) ELSE 0)
    ELSE (IF IntOf(tok) <= 31 THEN IntOf(tok) ELSE 0)

IsLeap(y) == (y % 4 = 0 /\ y % 100 # 0) \/ y % 400 = 0

DaysIn(y, m) ==
    IF m = 2 THEN (IF IsLeap(y) THEN 29 ELSE 28)
    ELSE IF m \in {4, 6, 9, 11} THEN 30 ELSE 31

\* datetime(year, month, day): <<the date>>, None for ValueError
datetime(y, m, d) ==
    IF y >= 1 /\ m \in 1..12 /\ d >= 1 /\ d <= DaysIn(y, m)
    THEN <<[year |-> y, month |-> m, day |-> d]>>
    ELSE None

\* the value of the field read by one of the directives in ds
FieldOf(parts, dirs, ds) ==
    DirectiveValue(dirs[CHOOSE k \in 1..3 : dirs[k] \in ds], parts[CHOOSE k \in 1..3 : dirs[k] \in ds])

StrpParts(parts, fmt) ==
    IF Len(parts) # 3 THEN None
    ELSE datetime(FieldOf(parts, fmt.dirs, {"Y"}), FieldOf(parts, fmt.dirs, {"m", "b"}),
                  FieldOf(parts, fmt.dirs, {"d"}))

\* datetime.strptime(date_str, fmt): <<the date>>, None for ValueError; a
\* blank of the format stands for a run of blanks of the text
strptime(date_str, fmt) ==
    StrpParts(SplitOn(IF fmt.sep = " " THEN Collapse(date_str) ELSE date_str, fmt.sep), fmt)

\* the Year-Day-Month reading of the parts, kept only when it is a date
DayMonthSwapped(dt, year, part1, part2) ==
    IF part1 > 12 \/ part2 > 12
    THEN IF part2 >= 1 /\ part2 <= 12 /\ datetime(year, part2, part1) # None
         THEN datetime(year, part2, part1)[1]
         ELSE dt
    ELSE dt

\* what parse_date_safely does with a text that "%Y-%m-%d" has read as dt
Reinterpret(dt, parts) ==
    IF Len(parts) = 3
    THEN DayMonthSwapped(dt, IntOf(parts[1]), IntOf(parts[2]), IntOf(parts[3]))
    ELSE dt

RECURSIVE Digits(_)
\* str(n), n >= 0
Digits(n) == IF n < 10 THEN Ch(DigitChars, n + 1) ELSE Digits(n \div 10) \o Ch(DigitChars, (n % 10) + 1)

Pad2(n) == IF n < 10 THEN "0" \o Digits(n) ELSE Digits(n)

\* dt.strftime("%Y-%m-%d")
strftime(dt) == Digits(dt.year) \o "-" \o Pad2(dt.month) \o "-" \o Pad2(dt.day)

RECURSIVE TryPatterns(_, _)
TryPattern(s, k, dt) ==
    IF dt = None THEN TryPatterns(s, k + 1)
    ELSE IF DATE_PATTERNS[k].dirs[1] = "Y" THEN <<strftime(Reinterpret(dt[1], SplitOn(s, "-")))>>
    ELSE <<strftime(dt[1])>>

\* "for fmt in DATE_PATTERNS" from the k-th format on
TryPatterns(s, k) ==
    IF k > Len(DATE_PATTERNS) THEN None ELSE TryPattern(s, k, strptime(s, DATE_PATTERNS[k]))

\* <<the ISO date>>, or None
parse_date_safely(date_str) == TryPatterns(Strip(date_str), 1)

-----------------------------------------------------------------------------
(* SpecDate: parse_match_metadata reads the match date                     *)

DateParts == {"2025", "10", "18", "5", "31", "02", "Oct"}

\* the texts beside the "Date" label: three parts and a separator
DateTexts == {a \o sep \o b \o sep \o c : a \in DateParts, b \in DateParts, c \in DateParts,
                                           sep \in {"/", "-", " "}}

InitDate ==
    /\ date_raw \in DateTexts
    /\ date_out = None
    /\ stored_date = None
    /\ datepc = "new"
    /\ team_name = "" /\ TossIdle /\ ResultIdle
    /\ RowIdle
    /\ MainIdle
    /\ PureIdle

\* "if date_raw:" of parse_match_metadata: the parsed date, else the raw text
StoreMatchDate ==
    /\ datepc = "new"
    /\ date_out' = parse_date_safely(date_raw)
    /\ stored_date' = IF parse_date_safely(date_raw) # None
                      THEN parse_date_safely(date_raw) ELSE <<Strip(date_raw)>>
    /\ datepc' = "stored"
    /\ UNCHANGED <<date_raw, team_name, tossVars, resVars, rowVars, mainVars, pureVars>>

NextDate == StoreMatchDate

SpecDate == InitDate /\ [][NextDate]_vars

\* the text is Year-A-B with four digits of year and one or two digits each
\* of A and B, one of them above 12, and B-A is a month and a day of the year
YearDayMonth(s) ==
    /\ Len(SplitOn(s, "-")) = 3
    /\ DirectiveValue("Y", SplitOn(s, "-")[1]) > 0
    /\ DirectiveValue("d", SplitOn(s, "-")[2]) > 0
    /\ DirectiveValue("m", SplitOn(s, "-")[3]) > 0
    /\ datetime(IntOf(SplitOn(s, "-")[1]), IntOf(SplitOn(s, "-")[3]), IntOf(SplitOn(s, "-")[2])) # None
    /\ IntOf(SplitOn(s, "-")[2]) > 12

\* C7 (as stated): a Year-first dash-separated text with a component above 12
\* is read as Year-Day-Month and comes back as an ISO date, neither None nor
\* kept as raw text: "10/18/2025" and "2025-18-10" both give "2025-10-18".
C7_YearDayMonthRead ==
    datepc = "stored" =>
        /\ date_raw = "10/18/2025" => date_out = <<"2025-10-18">>
        /\ date_raw = "2025-18-10" => date_out = <<"2025-10-18">> /\ stored_date = <<"2025-10-18">>
        /\ YearDayMonth(date_raw) =>
             date_out = <<SplitOn(date_raw, "-")[1] \o "-" \o Pad2(IntOf(SplitOn(date_raw, "-")[3]))
                            \o "-" \o Pad2(IntOf(SplitOn(date_raw, "-")[2]))>>

\* the month/day/year text of the claim was read
C7_MonthFirstRead == datepc = "stored" /\ date_raw = "10/18/2025" /\ date_out = <<"2025-10-18">>

\* what the code does with the Year-Day-Month text of the claim
C7_YearDayMonthKeptRaw ==
    datepc = "stored" /\ date_raw = "2025-18-10" /\ date_out = None /\ stored_date = <<"2025-18-10">>

-----------------------------------------------------------------------------
(* Toss: parse_match_metadata, "Toss - from table with <th>Toss:</th>"     *)

\* [A-Za-z0-9\s]
IsNameCh(c) == IsAlpha(c) \/ IsDigit(c) \/ IsSpace(c)

RECURSIVE PhraseEnd(_, _, _)
PhraseWord(t, k, j, words) ==
    IF j > k /\ MatchAt(t, j, Head(words))
    THEN PhraseEnd(t, j + Len(Head(words)), Tail(words))
    ELSE 0

\* \s+word1\s+word2.. tried at k of t: the position of its last letter, 0 when
\* it does not match there
PhraseEnd(t, k, words) ==
    IF words = <<>> THEN k - 1 ELSE PhraseWord(t, k, SkipSpaces(t, k), words)

\* the spans <<i, e>> of t that ([A-Za-z0-9\s]+) can take with the rest of the
\* pattern, After, matching from e + 1
NameSpans(t, After(_, _)) ==
    {p \in (1..Len(t)) \X (1..Len(t)) :
        /\ p[1] <= p[2]
        /\ \A j \in p[1]..p[2] : IsNameCh(Ch(t, j))
        /\ After(t, p[2] + 1)}

\* re.search: the leftmost start, and from it the longest span
FirstSpan(S) == CHOOSE p \in S : \A q \in S : p[1] < q[1] \/ (p[1] = q[1] /\ p[2] >= q[2])

\* group 1 of the search in text, None when the pattern is not found
GroupOfSpan(text, S) ==
    IF S = {} THEN None ELSE <<SubSeq(text, FirstSpan(S)[1], FirstSpan(S)[2])>>

WonTheToss(t, k) == PhraseEnd(t, k, <<"won", "the", "toss">>) > 0

\* team_match: r'([A-Za-z0-9\s]+)\s+won\s+the\s+toss', re.I
team_match(text) == GroupOfSpan(text, NameSpans(LowerStr(text), WonTheToss))

\* \belected\s+to\s+<verb>\b in t
ElectedTo(t, verb) ==
    \E i \in 1..Len(t) :
        /\ WordB(t, i)
        /\ MatchAt(t, i, "elected")
        /\ PhraseEnd(t, i + 7, <<"to", verb>>) > 0
        /\ WordB(t, PhraseEnd(t, i + 7, <<"to", verb>>) + 1)

\* "Determine what the toss winner chose", t the text in lower case
WinnerDecision(t) ==
    IF ElectedTo(t, "bat") \/ ContainsWord(t, "batted") THEN <<"batted">>
    ELSE IF ElectedTo(t, "bowl") \/ ContainsWord(t, "bowled") \/ ContainsWord(t, "field")
         THEN <<"bowled">>
    ELSE None

toss_winner_decision(text) == WinnerDecision(LowerStr(text))

\* a decision recorded as the winner took it, whoever the winner is
LiteralDecision(team, toss_winner_name, decision) == decision

\* "Make toss_decision contextual to team_name": toss_winner_name and decision
\* are None or <<text>>
ContextualDecision(team, toss_winner_name, decision) ==
    IF team # "" /\ toss_winner_name \notin {None, <<"">>} /\ decision # None
    THEN IF \/ Contains(canonical_name(toss_winner_name[1]), canonical_name(team))
            \/ Contains(canonical_name(team), canonical_name(toss_winner_name[1]))
         THEN decision
         ELSE IF decision = <<"batted">> THEN <<"bowled">> ELSE <<"batted">>
    ELSE decision

\* the name norm() leaves of the pattern's group
NormGroup(g) == IF g = None THEN None ELSE <<norm(g[1])>>

-----------------------------------------------------------------------------
(* SpecToss: the toss of one match                                         *)

TossTeams == {"Riders", "Strikers", "Strikers CC", "Royal Strikers"}

TossEndings ==
    {" won the toss and elected to bat", " won the toss and elected to bowl",
     " won the toss and elected to field", " won the toss and batted first",
     " elected to bat", " won the toss"}

TossTexts ==
    {None} \cup {<<w \o e>> : w \in TossTeams, e \in TossEndings}
           \cup {<<"Toss: " \o w \o " won the toss and elected to bowl">> : w \in TossTeams}

TossSubjects == {"", "Strikers", "Riders", "Strikers CC"}

InitToss ==
    /\ toss_text \in TossTexts
    /\ team_name \in TossSubjects
    /\ toss_winner = None
    /\ toss_decision = None
    /\ tosspc = "new"
    /\ DateIdle /\ ResultIdle
    /\ RowIdle
    /\ MainIdle
    /\ PureIdle

\* "if toss_match:" of parse_match_metadata
ReadToss ==
    /\ tosspc = "new"
    /\ IF toss_text = None
       THEN UNCHANGED <<toss_winner, toss_decision>>
       ELSE /\ toss_winner' = IF team_match(toss_text[1]) # None
                              THEN NormGroup(team_match(toss_text[1])) ELSE toss_text
            /\ toss_decision' = ContextualDecision(team_name,
                                                   NormGroup(team_match(toss_text[1])),
                                                   toss_winner_decision(toss_text[1]))
    /\ tosspc' = "done"
    /\ UNCHANGED <<toss_text, team_name, dateVars, resVars, rowVars, mainVars, pureVars>>

NextToss == ReadToss

SpecToss == InitToss /\ [][NextToss]_vars

\* the two canonical keys overlap: one is part of the other
KeysOverlap(a, b) ==
    \/ Contains(canonical_name(a), canonical_name(b))
    \/ Contains(canonical_name(b), canonical_name(a))

-----------------------------------------------------------------------------
(* Match result and opponent: parse_match_result                           *)

\* the matches parse_match_result is given
ResultTexts ==
    {"", "Riders won by 5 runs", "Strikers won by 3 wickets", "Match tied",
     "Riders beat Strikers", "Justice League CC won by 1 run", "Match abandoned"}

PageElements == {<<>>, <<"Scorecard", "Falcons">>, <<"Innings Break", "Strikers">>}

Pages == {[text |-> t, elements |-> e] : t \in ResultTexts, e \in PageElements}

ResultSubjects == {"", "Strikers", "Riders"}

FirstRows ==
    {<<"Strikers innings (20 overs maximum)", "R", "B", "4s", "6s", "SR">>,
     <<"Riders CC innings", "R", "B">>,
     <<"Justice League innings", "R", "B">>,
     <<"Bowling", "O", "M", "Dot", "R", "W", "Econ">>,
     <<"Bowler", "O", "M", "R", "W">>,
     <<"Fall of wickets">>}

InfoPages == {<<>>, <<"Venue: Oval", "Falcons">>}

INVALID_TEAM_NAMES ==
    {"player search", "search", "view", "click", "here", "more", "details",
     "scorecard", "ball by ball", "info", "match", "league", "club", "team",
     "home", "back", "next", "previous", "menu", "navigation", "innings",
     "1st innings", "2nd innings", "first innings", "second innings",
     "last updated", "updated", "last", "chai n chutneys rcc",
     "hpt20l", "hpt20l_series", "series", "houston premier"}

\* word1\s+word2.. stands at i of t
WordsAt(t, i, words) ==
    MatchAt(t, i, Head(words)) /\ PhraseEnd(t, i + Len(Head(words)), Tail(words)) > 0

\* the margin's unit at j2, after the number at j..d and blanks
WonByType(t, j, d, j2, types) ==
    IF j2 > d + 1 /\ \E x \in 1..Len(types) : MatchAt(t, j2, types[x])
    THEN <<[num |-> <<j, d>>,
            type |-> <<j2, j2 + Len(types[Min0({x \in 1..Len(types) : MatchAt(t, j2, types[x])})]) - 1>>]>>
    ELSE None

WonByNum(t, p, j, types) ==
    IF p > 0 /\ j > p + 1 /\ DigitRunEnd(t, j) >= j
    THEN WonByType(t, j, DigitRunEnd(t, j), SkipSpaces(t, DigitRunEnd(t, j) + 1), types)
    ELSE None

WonByPhrase(t, p, types) == WonByNum(t, p, SkipSpaces(t, p + 1), types)

\* \s+won\s+by\s+(\d+)\s+(type|..) tried at k: where the number and the unit
\* stand, None when it does not match; the types in the order the pattern
\* tries them
WonByAt(t, k, types) == WonByPhrase(t, PhraseEnd(t, k, <<"won", "by">>), types)

WonByRuns(t, k) == WonByAt(t, k, <<"runs", "run", "wickets", "wicket">>) # None

WonByRun(t, k) == WonByAt(t, k, <<"run", "wicket">>) # None

\* the end of the run of name characters that starts at i (i - 1 when none)
RECURSIVE NameRunEnd(_, _)
NameRunEnd(t, i) == IF i <= Len(t) /\ IsNameCh(ChAt(t, i)) THEN NameRunEnd(t, i + 1) ELSE i - 1

\* \s+beat\s+([A-Za-z0-9\s]+) tried at k: the end of the match, 0 when none
BeatEndFrom(t, p) ==
    IF p > 0 /\ p + 2 <= Len(t) /\ IsSpace(ChAt(t, p + 1)) /\ IsNameCh(ChAt(t, p + 2))
    THEN NameRunEnd(t, p + 2) ELSE 0

BeatEnd(t, k) == BeatEndFrom(t, PhraseEnd(t, k, <<"beat">>))

Beat(t, k) == BeatEnd(t, k) > 0

\* the first match of a "won by" pattern: the whole match, group 1 and the
\* margin; None without a match
WonByGroups(text, span, w) ==
    <<[g0 |-> SubSeq(text, span[1], w.type[2]),
       winner |-> SubSeq(text, span[1], span[2]),
       margin |-> <<SubSeq(text, w.num[1], w.num[2]) \o " " \o SubSeq(text, w.type[1], w.type[2])>>]>>

WonBySpan(text, span, types) ==
    WonByGroups(text, span, WonByAt(LowerStr(text), span[2] + 1, types)[1])

WonByFirst(text, S, types) == IF S = {} THEN None ELSE WonBySpan(text, FirstSpan(S), types)

\* r"([A-Za-z0-9\s]+)\s+won\s+by\s+(\d+)\s+(runs?|wickets?)"
WonByRunsMatch(text) ==
    WonByFirst(text, NameSpans(LowerStr(text), WonByRuns), <<"runs", "run", "wickets", "wicket">>)

\* r"([A-Za-z0-9\s]+)\s+won\s+by\s+(\d+)\s+(run|wicket)"
WonByRunMatch(text) ==
    WonByFirst(text, NameSpans(LowerStr(text), WonByRun), <<"run", "wicket">>)

TiedAt(t, i) ==
    /\ MatchAt(t, i, "match")
    /\ SkipSpaces(t, i + 5) > i + 5
    /\ \E w \in {"tied", "drawn", "draw"} : MatchAt(t, SkipSpaces(t, i + 5), w)

\* r"Match\s+(tied|drawn|draw)"
TiedMatch(text) ==
    IF \E i \in 1..Len(text) : TiedAt(LowerStr(text), i)
    THEN <<[g0 |-> "match tied", winner |-> "tied", margin |-> None]>>
    ELSE None

BeatSpan(text, span) ==
    <<[g0 |-> SubSeq(text, span[1], BeatEnd(LowerStr(text), span[2] + 1)),
       winner |-> SubSeq(text, span[1], span[2]),
       margin |-> None]>>

BeatFirst(text, S) == IF S = {} THEN None ELSE BeatSpan(text, FirstSpan(S))

\* r"([A-Za-z0-9\s]+)\s+beat\s+([A-Za-z0-9\s]+)"
BeatMatch(text) == BeatFirst(text, NameSpans(LowerStr(text), Beat))

\* \d+\s*[,:]\s*\d+ in s
ScorePattern(s) ==
    \E i \in 1..Len(s) :
        /\ IsDigit(ChAt(s, i))
        /\ ChAt(s, SkipSpaces(s, i + 1)) \in {",", ":"}
        /\ IsDigit(ChAt(s, SkipSpaces(s, SkipSpaces(s, i + 1) + 1)))

\* \d{4}|\d{1,2}/\d{1,2} in s
DatePattern(s) ==
    \E i \in 1..Len(s) :
        \/ \A j \in i..(i + 3) : IsDigit(ChAt(s, j))
        \/ IsDigit(ChAt(s, i)) /\ ChAt(s, i + 1) = "/" /\ IsDigit(ChAt(s, i + 2))

\* won\s+the\s+toss|elected\s+to in t
TossWords(t) ==
    \E i \in 1..Len(t) : WordsAt(t, i, <<"won", "the", "toss">>) \/ WordsAt(t, i, <<"elected", "to">>)

\* the result text's winner may stand as the opponent
WinnerIsTeam(winner, winner_key) ==
    /\ winner_key \notin INVALID_TEAM_NAMES
    /\ ~TossWords(LowerStr(winner))
    /\ ~ScorePattern(winner)

\* the body of "for match in matches" below the tie test
ApplyWinner(info, winner, winner_key, tkey) ==
    IF winner_key # "" /\ tkey # ""
    THEN IF Contains(tkey, winner_key) \/ Contains(winner_key, tkey)
         THEN [info EXCEPT !.match_result = <<"Win">>]
         ELSE [info EXCEPT !.match_result = <<"Loss">>,
                           !.opponent_team = IF WinnerIsTeam(winner, winner_key)
                                             THEN <<title_clean(winner)>> ELSE @]
    ELSE info

WithMargin(info, margin) == IF margin = None THEN info ELSE [info EXCEPT !.result_margin = margin]

\* what the first match m of one pattern does to result_info
ApplyMatch(info, m, tkey) ==
    IF m = None THEN info
    ELSE IF \E w \in {"tied", "drawn", "draw"} : Contains(LowerStr(m[1].g0), w)
         THEN [info EXCEPT !.match_result = <<"Draw">>]
    ELSE ApplyWinner(WithMargin(info, m[1].margin), norm(m[1].winner),
                     canonical_name(norm(m[1].winner)), tkey)

\* "for pattern in result_patterns": each pattern's first match in turn
ResultFromText(text, tkey) ==
    ApplyMatch(ApplyMatch(ApplyMatch(ApplyMatch(NoResult, WonByRunsMatch(text), tkey),
                                     WonByRunMatch(text), tkey),
                          TiedMatch(text), tkey),
               BeatMatch(text), tkey)

SubjectKeys == {canonical_name(x) : x \in ResultSubjects}

\* ResultFromText over the texts and subjects given, evaluated once
ResultsFromText == [x \in ResultTexts |-> [k \in SubjectKeys |-> ResultFromText(x, k)]]

ResultFromTextOf(text, tkey) ==
    IF text \in ResultTexts /\ tkey \in SubjectKeys
    THEN ResultsFromText[text][tkey] ELSE ResultFromText(text, tkey)

\* re.sub(r"^(1st|2nd|first|second)\s+", "", s)
DropOrdinal(s) ==
    IF \E w \in {"1st", "2nd", "first", "second"} : StartsWith(s, w) /\ MatchAt(s, Len(w) + 1, " ")
    THEN SubSeq(s, SkipSpaces(s, Min0({i \in 1..Len(s) : IsSpace(ChAt(s, i))})), Len(s))
    ELSE s

RECURSIVE RemoveParens(_)
ParensCut(s, i, j) ==
    IF i = 0 \/ j = 0 THEN s
    ELSE SubSeq(s, 1, i - 1) \o RemoveParens(SubSeq(s, j + 1, Len(s)))

ParensFrom(s, i) == ParensCut(s, i, Min0({j \in (i + 1)..Len(s) : ChAt(s, j) = ")"}))

\* re.sub(r"\([^)]*\)", "", s)
RemoveParens(s) == ParensFrom(s, Min0({i \in 1..Len(s) : ChAt(s, i) = "("}))

\* re.sub(r":\s*$", "", s)
DropLastColon(s) ==
    IF RStrip(s) # "" /\ ChAt(RStrip(s), Len(RStrip(s))) = ":"
    THEN SubSeq(RStrip(s), 1, Len(RStrip(s)) - 1)
    ELSE s

\* team_raw of a header that holds "innings"
InningsTeamRaw(hdr) ==
    norm(DropLastColon(Strip(RemoveParens(Strip(DropOrdinal(Strip(BeforeFirst(hdr, "innings"))))))))

\* the candidate an "innings" header adds to teams_from_tables
InningsCandidate(team_display, team_key_candidate) ==
    IF /\ team_key_candidate # ""
       /\ team_key_candidate \notin INVALID_TEAM_NAMES
       /\ Len(team_display) > 2 /\ Len(team_display) < 50
       /\ ~DatePattern(team_display)
       /\ ~(DigitRunEnd(team_display, 1) >= 1 /\ ChAt(team_display, DigitRunEnd(team_display, 1) + 1) = ".")
    THEN {[display |-> team_display, key |-> team_key_candidate, innings |-> TRUE]}
    ELSE {}

InningsDisplay(team_display) == InningsCandidate(team_display, canonical_name(team_display))

InningsTeam(team_raw) ==
    IF team_raw # "" /\ Len(team_raw) > 2 THEN InningsDisplay(title_clean(team_raw)) ELSE {}

\* the candidate the first cell of another table adds
CellCandidate(team_display, team_key_candidate, tkey) ==
    IF /\ team_key_candidate # ""
       /\ team_key_candidate \notin INVALID_TEAM_NAMES
       /\ team_key_candidate # tkey
    THEN {[display |-> team_display, key |-> team_key_candidate, innings |-> FALSE]}
    ELSE {}

CellTeam(first_cell, tkey) ==
    IF /\ Len(first_cell) > 2 /\ Len(first_cell) < 50
       /\ IsAlpha(ChAt(first_cell, 1))
       /\ \A i \in 2..Len(first_cell) : IsNameCh(ChAt(first_cell, i))
       /\ ~\E w \in {"bowling", "overs", "maximum", "did not bat"} : Contains(lower(first_cell), w)
       /\ ~DatePattern(first_cell)
    THEN CellCandidate(title_clean(first_cell), canonical_name(title_clean(first_cell)), tkey)
    ELSE {}

\* what the table with first row row0 adds; hdr is lower(" ".join(row0))
FromHeader(row0, hdr, tkey) ==
    IF Contains(hdr, "innings") THEN InningsTeam(InningsTeamRaw(hdr))
    ELSE IF Len(row0) > 0 THEN CellTeam(Strip(row0[1]), tkey)
    ELSE {}

FromTable(row0, tkey) == FromHeader(row0, lower(norm(JoinCells(row0))), tkey)

\* FromTable over the first rows and subjects given, evaluated once
TeamsFromRows == [x \in FirstRows |-> [k \in SubjectKeys |-> FromTable(x, k)]]

FromTableOf(row0, tkey) ==
    IF row0 \in FirstRows /\ tkey \in SubjectKeys
    THEN TeamsFromRows[row0][tkey] ELSE FromTable(row0, tkey)

\* the set teams_from_tables; the field innings tells which branch added the
\* candidate and is not part of the code's tuple
teams_from_tables(tables, tkey) == UNION {FromTableOf(tables[i], tkey) : i \in 1..Len(tables)}

\* a selection that forgets to pass over the subject team's own entry
OpponentsFromTablesOwnToo(teams, tkey) ==
    {c \in teams :
        /\ ~ScorePattern(c.display)
        /\ ~DatePattern(c.display)
        /\ ~Contains(lower(c.display), "break")
        /\ ~Contains(lower(c.display), "league")}

\* the candidates the loop over teams_from_tables can stop at
OpponentsFromTables(teams, tkey) ==
    {c \in teams :
        /\ c.key # tkey
        /\ ~ScorePattern(c.display)
        /\ ~DatePattern(c.display)
        /\ ~Contains(lower(c.display), "break")
        /\ ~Contains(lower(c.display), "league")}

\* the elements of info_html that pass as team names, as the tuples the
\* code adds to teams_from_tables
InfoCandidate(text_content, text_key, tkey) ==
    IF /\ text_key # "" /\ text_key # tkey
       /\ text_key \notin INVALID_TEAM_NAMES
       /\ ~\E w \in {"series", "league", "hpt20l"} : Contains(text_key, w)
       /\ ~\E w \in {"date", "time", "venue", "ground", "toss", "match", "series", "league", "club"} :
              StartsWith(LowerStr(text_content), w \o ":")
    THEN {[display |-> title_clean(text_content), key |-> text_key, innings |-> FALSE]}
    ELSE {}

InfoTeam(text_content, tkey) ==
    IF Len(text_content) > 2 /\ Len(text_content) < 50
    THEN InfoCandidate(text_content, canonical_name(text_content), tkey)
    ELSE {}

InfoTeams(info, tkey) == UNION {InfoTeam(norm(info[i]), tkey) : i \in 1..Len(info)}

\* teams_from_tables after the info_html block
WithInfoTeams(teams, text_opponent, info, tkey) ==
    IF info # <<>> /\ text_opponent = None /\ teams = {} THEN InfoTeams(info, tkey) ELSE teams

\* some pattern of EXCLUDE_PATTERNS is found in t, the heading in lower case
ExcludedText(t) ==
    \/ \E i \in 1..Len(t) : WordsAt(t, i, <<"won", "the", "toss">>)
    \/ \E i \in 1..Len(t) : \E w \in {"bat", "bowl"} : WordsAt(t, i, <<"elected", "to", w>>)
    \/ ScorePattern(t)
    \/ (DigitRunEnd(t, 1) >= 1 /\ ChAt(t, DigitRunEnd(t, 1) + 1) = ".")
    \/ \E i \in 1..Len(t) :
          IsDigit(ChAt(t, i)) /\ \E w \in {"min", "pm", "am", "hr", "hour"} : MatchAt(t, SkipSpaces(t, i + 1), w)
    \/ \E i \in 1..Len(t) : \E w \in {"1st", "2nd", "first", "second"} : WordsAt(t, i, <<w, "innings">>)
    \/ (RStrip(t) # "" /\ ChAt(RStrip(t), Len(RStrip(t))) = ":")
    \/ \E i \in 1..Len(t) : \A j \in i..(i + 3) : IsDigit(ChAt(t, j))
    \/ \E i \in 1..Len(t) : \E a \in {1, 2} : \E b \in {1, 2} :
          /\ \A j \in i..(i + a - 1) : IsDigit(ChAt(t, j))
          /\ ChAt(t, i + a) = "/"
          /\ \A j \in (i + a + 1)..(i + a + b) : IsDigit(ChAt(t, j))
          /\ ChAt(t, i + a + b + 1) = "/"
          /\ \A j \in (i + a + b + 2)..(i + a + b + 3) : IsDigit(ChAt(t, j))
    \/ Contains(t, "break")
    \/ \E i \in 1..Len(t) :
          MatchAt(t, i, "league") /\ SkipSpaces(t, i + 6) > i + 6 /\ IsDigit(ChAt(t, SkipSpaces(t, i + 6)))
    \/ \E i \in 1..Len(t) : WordsAt(t, i, <<"last", "updated">>)
    \/ \E i \in 1..Len(t) : MatchAt(t, i, "updated") /\ ChAt(t, SkipSpaces(t, i + 7)) = ":"
    \/ \E i \in 1..Len(t) : WordsAt(t, i, <<"houston", "premier">>)

\* team_pattern finds the element: 2 to 30 name characters and nothing else
IsTeamText(h) == Len(h) >= 2 /\ Len(h) <= 30 /\ \A i \in 1..Len(h) : IsNameCh(ChAt(h, i))

teams_found(elements) == SelectSeq(elements, IsTeamText)

\* the test of the loop over teams_found
HeadingPasses(team_clean, team_stripped, tkey) ==
    /\ ~ExcludedText(LowerStr(team_stripped))
    /\ ~\E w \in {"series", "league", "hpt20l"} : Contains(team_clean, w)
    /\ team_clean # "" /\ team_clean # tkey
    /\ team_clean \notin INVALID_TEAM_NAMES
    /\ Len(team_stripped) > 2 /\ Len(team_stripped) < 40

HeadingIsTeam(team, tkey) == HeadingPasses(canonical_name(team), Strip(team), tkey)

FirstHeading(info, found, S) ==
    IF S = {} THEN info ELSE [info EXCEPT !.opponent_team = <<title_clean(Strip(found[Min0(S)]))>>]

\* "Fallback: Look for team names in headers": the first heading that passes
FromHeadings(info, found, tkey) ==
    FirstHeading(info, found, {i \in 1..Len(found) : HeadingIsTeam(found[i], tkey)})

\* "for team_display, team_key_candidate in teams_from_tables": a set is
\* walked in an order that differs from run to run, so the loop can stop at
\* any of the candidates that pass
WithOpponent(info, found, elements, tkey) ==
    IF info.match_result \notin {<<"Win">>, <<"Loss">>} THEN {info}
    ELSE IF found # {} THEN {[info EXCEPT !.opponent_team = <<c.display>>] : c \in found}
    ELSE IF info.opponent_team = None THEN {FromHeadings(info, teams_found(elements), tkey)}
    ELSE {info}

ResolveOpponent(info, teams, page, info_elems, tkey) ==
    WithOpponent(info,
                 OpponentsFromTables(WithInfoTeams(teams, info.opponent_team, info_elems, tkey), tkey),
                 page.elements, tkey)

ResultFor(page, tkey, tables, info_elems) ==
    ResolveOpponent(ResultFromTextOf(page.text, tkey), teams_from_tables(tables, tkey),
                    page, info_elems, tkey)

\* the page without content
EmptyPage == [text |-> "", elements |-> <<>>]

\* the results parse_match_result can return.  The page full_html is its
\* running text and, in page order, the contents of its <h1>..<h6>, <th> and
\* <td class=team> elements; tables_html is the first row of each table;
\* info_html is the contents of its <h2>, <h3>, <h4>, <th> and <td> elements
parse_match_result(page, team, tables, info_elems) ==
    IF page = EmptyPage \/ team = "" THEN {NoResult}
    ELSE ResultFor(page, canonical_name(team), tables, info_elems)

-----------------------------------------------------------------------------
(* SpecResult: parse_match_result called twice on the same match, as two   *)
(* runs of the engine over the same HTML call it.                          *)

MaxResultTables == 2

InitResult ==
    /\ full_html \in Pages
    /\ team_name \in ResultSubjects
    /\ tables_html \in SeqsUpTo(FirstRows, MaxResultTables)
    /\ info_html \in InfoPages
    /\ result_info = NoResult
    /\ result_again = NoResult
    /\ respc = "new"
    /\ DateIdle /\ TossIdle
    /\ RowIdle
    /\ MainIdle
    /\ PureIdle

\* match_result = parse_match_result(full_html, team_name_cfg, html_tables, info_html)
ParseResult ==
    /\ respc = "new"
    /\ result_info' \in parse_match_result(full_html, team_name, tables_html, info_html)
    /\ respc' = "once"
    /\ UNCHANGED <<full_html, tables_html, info_html, result_again, team_name,
                   dateVars, tossVars, rowVars, mainVars, pureVars>>

\* the same call in a second run over the same match
ParseAgain ==
    /\ respc = "once"
    /\ result_again' \in parse_match_result(full_html, team_name, tables_html, info_html)
    /\ respc' = "twice"
    /\ UNCHANGED <<full_html, tables_html, info_html, result_info, team_name,
                   dateVars, tossVars, rowVars, mainVars, pureVars>>

NextResult == ParseResult \/ ParseAgain

SpecResult == InitResult /\ [][NextResult]_vars

\* C9: two runs over the same match HTML, roster and subject team return the
\* same result: no field, opponent_team in particular, depends on the order in
\* which the collection of table-header team names is walked.
C9_SameResultTwice == respc = "twice" => result_info = result_again

\* the opponent the result text alone gives
TextOpponent == ResultFromTextOf(full_html.text, canonical_name(team_name)).opponent_team

\* the opponents the "innings" headers give: names that stand before
\* "innings", are not the subject team and pass the deny-lists
HeaderOpponents ==
    {c \in OpponentsFromTables(teams_from_tables(tables_html, canonical_name(team_name)),
                               canonical_name(team_name)) : c.innings}

\* C10: when an "innings" header gives an opponent and the result text gives
\* one too, the opponent_team returned is the one from an "innings" header.
C10_HeaderOpponentPreferred ==
    (/\ respc # "new"
     /\ full_html # EmptyPage /\ team_name # ""
     /\ TextOpponent # None
     /\ HeaderOpponents # {})
    => result_info.opponent_team \in {<<c.display>> : c \in HeaderOpponents}

\* C11: the result recorded for a match whose page has content, with a subject
\* team configured, is one of Win, Loss, Draw, Tie: it is never missing and
\* never another value.
C11_ResultIsOneOfFour ==
    (respc # "new" /\ full_html # EmptyPage /\ team_name # "")
    => result_info.match_result \in {<<"Win">>, <<"Loss">>, <<"Draw">>, <<"Tie">>}

\* the values match_result does take
C11_ResultOrMissing ==
    result_info.match_result \in {None, <<"Win">>, <<"Loss">>, <<"Draw">>}

\* the tokens no team name may hold
DenyTokens ==
    {"search", "last updated", "series", "league", "hpt20l", "houston premier",
     "won the toss", "elected to", "innings break"}

\* o reads as a team name: no deny-listed token, three characters or more, no
\* score-like "N, N" or "N:N"
ValidTeamName(o) ==
    /\ ~\E w \in DenyTokens : Contains(LowerStr(o), w)
    /\ Len(Strip(o)) >= 3
    /\ ~ScorePattern(o)

\* C12: whichever layer resolved it, the opponent recorded for a match is a
\* valid team name: it holds no deny-listed token, is at least three
\* characters long and holds no score-like fragment.
C12_OpponentIsTeamName ==
    (respc # "new" /\ result_info.opponent_team # None)
    => ValidTeamName(result_info.opponent_team[1])

\* C13: the opponent recorded is never the subject team: on every path its
\* canonical key differs from the subject's, so the two names differ when
\* compared without regard to case.
C13_OpponentIsNotSubject ==
    (respc # "new" /\ result_info.opponent_team # None)
    => /\ canonical_name(result_info.opponent_team[1]) # canonical_name(team_name)
       /\ LowerStr(result_info.opponent_team[1]) # LowerStr(team_name)

\* the subject's own innings table stood among the tables and another team
\* was recorded as the opponent
C13_Witness ==
    /\ respc # "new"
    /\ result_info.opponent_team # None
    /\ \E i \in 1..Len(tables_html) :
          \E c \in FromTableOf(tables_html[i], canonical_name(team_name)) :
              c.key = canonical_name(team_name)

\* a cell that is a single letter O or R in either case, or that is wholly
\* within parentheses
NoiseCell(c) ==
    \/ LowerStr(c) \in {"o", "r"}
    \/ Len(c) >= 2 /\ Ch(c, 1) = "(" /\ Ch(c, Len(c)) = ")"

\* a row whose only content besides blanks and figures is noise
NoiseRow(cs) ==
    /\ \E i \in 1..Len(cs) : NoiseCell(cs[i])
    /\ \A i \in 1..Len(cs) :
          \/ NoiseCell(cs[i])
          \/ \A j \in 1..Len(cs[i]) : ~IsAlpha(Ch(cs[i], j))

\* C14: a row whose only content is "O", "R" (in any case) or a wholly
\* parenthetical string gives no record, neither as a batting row nor as a
\* bowling row, whatever figures stand in its other cells.
C14_NoiseRowGivesNoRecord ==
    NoiseRow(cells) =>
        /\ rowpc = "batting" => br = None
        /\ rowpc = "bowling" => wr = None

\* a noise row followed by figures enough for a record has been through an
\* extractor
C14_Witness ==
    /\ rowpc \in {"batting", "bowling"}
    /\ NoiseRow(cells)
    /\ Len(cells) >= 6
    /\ \A i \in 3..Len(cells) : is_numish(cells[i])

\* a record of the given kind may come from the table with first row hdr: the
\* table is of that kind, and with a subject team its owner holds the team's
\* key, or it has no owner and a roster is loaded
FromContext(ctx, k) ==
    /\ ctx[1] = <<k>>
    /\ team_key # "" =>
         \/ ctx[2][1] # "" /\ Contains(ctx[2][1], team_key)
         \/ ctx[2][1] = "" /\ roster_map # <<>>

FromSubjectTable(hdr, k) == FromContext(TableContextOf(hdr), k)

\* C15: records come only from batting and bowling tables; with a subject
\* team configured, only from tables whose owner holds the team's key, and
\* from ownerless tables only when a roster is loaded.
C15_RecordsFromSubjectTables ==
    /\ \A i \in 1..Len(bats) : FromSubjectTable(bat_rows[i].header, "batting")
    /\ \A i \in 1..Len(bowls) : FromSubjectTable(bowl_rows[i].header, "bowling")

\* with a subject team and a roster, a batting record from the team's own
\* innings and a bowling record from a table without an owner
C15_Witness ==
    /\ team_key # ""
    /\ bats # <<>>
    /\ \E i \in 1..Len(bowls) : TableContextOf(bowl_rows[i].header)[2][1] = ""

\* the metadata fields the records of a match are to share, by the names
\* the code gives them
MergedFields ==
    {"match_date", "ground", "toss_winner", "toss_decision", "match_result",
     "opponent_team", "series", "player_of_match"}

\* the record carries every merged field with the match's value
CarriesMetadata(rec) ==
    \A f \in MergedFields : f \in DOMAIN rec /\ rec[f] = match_meta[f]

\* C16: every record of a match, batting or bowling, carries the match's
\* date, ground, toss winner and decision, result, opponent, series and
\* player of the match, with the values of the match's metadata.
C16_AllRecordsCarryMetadata ==
    /\ \A i \in 1..Len(bats) : CarriesMetadata(bats[i])
    /\ \A i \in 1..Len(bowls) : CarriesMetadata(bowls[i])

\* what the records do carry: batting records all the merged fields, bowling
\* records all but the date
C16_StampedFields ==
    /\ \A i \in 1..Len(bats) : CarriesMetadata(bats[i])
    /\ \A i \in 1..Len(bowls) :
          /\ "match_date" \notin DOMAIN bowls[i]
          /\ \A f \in MergedFields \ {"match_date"} :
                f \in DOMAIN bowls[i] /\ bowls[i][f] = match_meta[f]

\* the metadata of the match is the same before and after every step
C16_MetadataUnchanged == [][match_meta' = match_meta]_vars

DotFieldNames == {"bat_dot_balls", "bat_bbp_balls", "bat_dot_pct"}

\* the table read last was passed over: none of its rows was processed
Skipped == pc = "tables" /\ header # <<>> /\ row_idx = 0

\* the table with first row hdr is one main() works through when a roster
\* is loaded
ProcessedWithRoster(hdr) ==
    /\ TableContextOf(hdr)[1] \in {<<"batting">>, <<"bowling">>}
    /\ team_key # "" =>
         \/ TableContextOf(hdr)[2][1] = ""
         \/ Contains(TableContextOf(hdr)[2][1], team_key)

\* without a ball-by-ball fragment no batting record has a dot-ball field
NoDotsWithoutBalls ==
    BallHtml(match_id) = None
    => \A i \in 1..Len(bats) : DOMAIN bats[i] \cap DotFieldNames = {}

\* without a roster every row an extractor accepted is emitted
NoRowDroppedWithoutRoster ==
    (roster_map = <<>> /\ last.parsed # None) => last.emitted

-----------------------------------------------------------------------------
(* SpecContext: detect_table_context on one table                          *)

MaxContextRows == 2

\* first rows: the headers of the scorecard, a header with its owner after
\* the keyword, one with both keywords, one with punctuation before the
\* keyword, a row of figures, an empty header
ContextFirstRows ==
    Headers \cup
    {<<"BOWLING", "O", "M">>,
     <<"Riders Innings", "Bowling">>,
     <<"Bowling Stars innings">>,
     <<"St. John's C.C. - Innings">>,
     <<"Amit", "45(30)", "4">>,
     <<"">>}

\* rows under the first one, some of them with a keyword
ContextMoreRows ==
    {<<"Amit", "45(30)", "4", "2">>,
     <<"Riders innings", "R", "B">>,
     <<"Bowling", "O", "M">>}

\* the tables: no row at all, or a first row and up to MaxContextRows more
ContextTables ==
    {<<>>} \cup {<<f>> \o t : f \in ContextFirstRows,
                             t \in SeqsUpTo(ContextMoreRows, MaxContextRows)}

InitContext ==
    /\ tbl_rows \in ContextTables
    /\ context = <<None, None>>
    /\ ctxpc = "new"
    /\ SplitIdle
    /\ LaterIdle
    /\ RowIdle
    /\ MainIdle
    /\ MetaIdle

\* kind, owner = detect_table_context(rows)
Classify ==
    /\ ctxpc = "new"
    /\ context' = detect_table_context(tbl_rows)
    /\ ctxpc' = "done"
    /\ UNCHANGED <<tbl_rows, splitVars, laterVars, rowVars, mainVars, metaVars>>

NextContext == Classify

SpecContext == InitContext /\ [][NextContext]_vars

\* the context the header text h stands for: h is the first row, joined and
\* in lower case
ContextOfHeader(h) ==
    IF h = "" THEN <<None, None>>
    ELSE IF Contains(h, "innings")
         THEN <<<<"batting">>, <<canonical_name(BeforeFirst(h, "innings"))>>>>
    ELSE IF Contains(h, "bowling")
         THEN <<<<"bowling">>, <<canonical_name(BeforeFirst(h, "bowling"))>>>>
    ELSE <<None, None>>

\* C18: a table is classified from its first row only: batting when the
\* joined lower-cased header contains "innings", else bowling when it
\* contains "bowling", else neither; the owner is the canonical key of the
\* text before the keyword; no rows or an empty header give neither.
C18_ContextFromFirstRow ==
    ctxpc = "done" =>
        IF tbl_rows = <<>> THEN context = <<None, None>>
        ELSE context = ContextOfHeader(lower(JoinCells(tbl_rows[1])))

\* a bowling table with an owner whose later rows hold the word "innings"
C18_Witness ==
    /\ ctxpc = "done"
    /\ Len(tbl_rows) >= 2
    /\ \E i \in 2..Len(tbl_rows) : Contains(lower(JoinCells(tbl_rows[i])), "innings")
    /\ context = <<<<"bowling">>, <<"strikers cc">>>>

\* the rows handed over are the same after the call
C18_RowsUntouched == [][tbl_rows' = tbl_rows]_vars

-----------------------------------------------------------------------------
(* SpecSplit: split_name_and_dismissal on one cell                         *)

SplitNames == {"Amit", "Marc Smith", "Steve", "B Kumar", "Abstain Roy", "ravi*", "Alec", ""}

SplitDismissals ==
    {"", "not out", "NOT OUT", "c Sam b Jon", "b Jon", "lbw b Jon", "st Sam b Jon",
     "run out (Bob)", "retired hurt", "retired", "c&b Jon", "absent", "did not bat"}

\* a name, a space, a dismissal
SplitCells == {Strip(n \o " " \o d) : n \in SplitNames, d \in SplitDismissals}

InitSplit ==
    /\ cell_text \in SplitCells
    /\ split_out = <<"", "">>
    /\ splitpc = "new"
    /\ ContextIdle
    /\ LaterIdle
    /\ RowIdle
    /\ MainIdle
    /\ MetaIdle

\* name, how_simpl = split_name_and_dismissal(raw_name)
SplitCell ==
    /\ splitpc = "new"
    /\ split_out' = split_name_and_dismissal(cell_text)
    /\ splitpc' = "done"
    /\ UNCHANGED <<cell_text, ctxVars, laterVars, rowVars, mainVars, metaVars>>

NextSplit == SplitCell

SpecSplit == InitSplit /\ [][NextSplit]_vars

DismissalKeywords ==
    {"not out", "c&b", "c ", "b ", "lbw", "st", "run out", "retired hurt", "retired"}

\* the ordered rules that map a dismissal text h, x being h in lower case
MappedDismissal(h, x) ==
    CASE StartsWith(x, "c") -> "catch"
      [] ~StartsWith(x, "c") /\ StartsWith(x, "b") -> "bowled"
      [] StartsWith(x, "not out") -> "not out"
      [] ~StartsWith(x, "c") /\ ~StartsWith(x, "b") /\ ~StartsWith(x, "not out")
         /\ Contains(x, "run out") -> "run out"
      [] ~StartsWith(x, "c") /\ ~StartsWith(x, "b") /\ ~StartsWith(x, "not out")
         /\ ~Contains(x, "run out") /\ Contains(x, "lbw") -> "lbw"
      [] ~StartsWith(x, "c") /\ ~StartsWith(x, "b") /\ ~StartsWith(x, "not out")
         /\ ~Contains(x, "run out") /\ ~Contains(x, "lbw") /\ StartsWith(x, "st") -> "stumped"
      [] OTHER -> h

\* the cell s split before position m, whole when m is 0: the cleaned name
\* and the mapped dismissal
SplitBefore(s, m) ==
    IF m = 0 THEN <<title_clean(s), "">>
    ELSE <<title_clean(SubSeq(s, 1, m - 1)),
           MappedDismissal(Strip(SubSeq(s, m, Len(s))), LowerStr(Strip(SubSeq(s, m, Len(s)))))>>

\* the first place of s, in lower case, where a keyword stands
FirstKeyword(s) ==
    Min0({i \in 1..Len(s) : \E w \in DismissalKeywords : MatchAt(LowerStr(s), i, w)})

\* a keyword at position i of t, t in lower case: it starts a word, and
\* "c", "b" and "st" are whole words
KeywordAsWord(t, i) ==
    /\ i = 1 \/ ~IsWord(ChAt(t, i - 1))
    /\ \/ \E w \in {"not out", "c&b", "lbw", "run out", "retired hurt", "retired"} :
             MatchAt(t, i, w)
       \/ \E w \in {"c", "b", "st"} : MatchAt(t, i, w) /\ ~IsWord(ChAt(t, i + Len(w)))

FirstKeywordAsWord(s) == Min0({i \in 1..Len(s) : KeywordAsWord(LowerStr(s), i)})

\* C19: the cell is split at the first occurrence, in any case, of a
\* dismissal keyword: the text before it is the name, the text from it on is
\* mapped by the ordered rules; without a keyword the whole cell is the name
\* and the dismissal is empty.
C19_SplitAtFirstKeyword ==
    splitpc = "done" => split_out = SplitBefore(norm(cell_text), FirstKeyword(norm(cell_text)))

\* C19, amended: the keyword counts only where it starts a word, and "c",
\* "b" and "st" only as whole words.
C19_SplitAtFirstKeywordWord ==
    splitpc = "done"
    => split_out = SplitBefore(norm(cell_text), FirstKeywordAsWord(norm(cell_text)))

\* a cell whose name holds the letters of a keyword inside a word, split at
\* the keyword that follows the name
C19_Witness ==
    /\ splitpc = "done"
    /\ FirstKeyword(norm(cell_text)) # 0
    /\ FirstKeyword(norm(cell_text)) < FirstKeywordAsWord(norm(cell_text))
    /\ split_out[2] = "stumped"

\* the batting fields of the row as read, before the boundary counts are
\* clamped
Harvested == BattingFields(cells, FirstIdx(cells, looks_name))

\* six times the sixes exceed the runs
SixesExceed(sixes, runs) == 6 * sixes.n * runs.d > runs.n * sixes.d

\* the record rec is consistent with the fields h it was made from
BoundariesConsistent(h, rec) ==
    /\ (notna(h.runs) /\ notna(h.sixes) /\ SixesExceed(h.sixes, h.runs))
          => rec.Sixes = IntNum(h.runs.n \div (6 * h.runs.d))
    /\ (notna(rec.Runs) /\ rec.Runs.n = 0)
          => /\ isna(rec.Fours) \/ rec.Fours = IntNum(0)
             /\ isna(rec.Sixes) \/ rec.Sixes = IntNum(0)
    /\ (notna(rec.Runs) /\ notna(rec.Sixes)) => ~SixesExceed(rec.Sixes, rec.Runs)
    /\ isna(h.fours) => isna(rec.Fours)
    /\ isna(h.sixes) => isna(rec.Sixes)
    /\ notna(h.runs) => rec.Runs = h.runs

\* C20: in an accepted batting record the sixes that exceeded the runs are
\* floor(Runs/6), with no run every present count of fours and sixes is 0,
\* six times the sixes never exceed the runs, and a count that was absent
\* stays absent.
C20_BoundariesConsistent ==
    (rowpc = "batting" /\ br # None) => BoundariesConsistent(Harvested, br[1])

\* an accepted record whose sixes were read as more than its runs allow: ten
\* runs with three sixes
ClampedToOne(h, rec) ==
    /\ notna(h.runs) /\ h.runs.n > 0
    /\ notna(h.sixes)
    /\ SixesExceed(h.sixes, h.runs)
    /\ rec.Sixes = IntNum(1)

C20_Witness == rowpc = "batting" /\ br # None /\ ClampedToOne(Harvested, br[1])

-----------------------------------------------------------------------------
(* SpecBalls: parse_ball_by_ball on one ball-by-ball fragment              *)

MaxBalls == 2
MaxTableBalls == 1

\* the deliveries of the commentary: the batter on strike, what the ball was
\* and the runs scored from it
BallPool ==
    {[batter |-> "Ravi S", kind |-> "run", runs |-> 0],
     [batter |-> "Ravi S", kind |-> "run", runs |-> 1],
     [batter |-> "Ravi S", kind |-> "wide", runs |-> 1],
     [batter |-> "Ravi S", kind |-> "noball", runs |-> 1],
     [batter |-> "Arun", kind |-> "run", runs |-> 1],
     [batter |-> "Arun", kind |-> "wide", runs |-> 1]}

\* the deliveries of a batsman/runs table
TableBallPool ==
    {[batter |-> "Ravi", kind |-> "run", runs |-> 0],
     [batter |-> "Ravi", kind |-> "run", runs |-> 1],
     [batter |-> "Ravi", kind |-> "wide", runs |-> 1]}

\* "0.1 Bowler to Batsman, X run", "0.1 Bowler to Batsman WIDE", "Xnb"
OutcomeText(d) ==
    CASE d.kind = "wide" -> " WIDE"
      [] d.kind = "noball" -> " " \o Ch(DigitChars, d.runs + 1) \o "nb"
      [] OTHER -> ", " \o Ch(DigitChars, d.runs + 1) \o " run"

\* the commentary's line of the k-th ball of the over
BallText(d, k) == "0." \o Ch(DigitChars, k + 1) \o " Dev P to " \o d.batter \o OutcomeText(d)

\* elem.get_text(" ", strip=True) of an element that holds the deliveries ds,
\* the first of them the k-th ball
ElementText(ds, k) == JoinCells([i \in 1..Len(ds) |-> BallText(ds[i], k + i - 1)])

\* the row of a delivery in a batsman/runs table
TableBallRow(d) ==
    <<d.batter,
      CASE d.kind = "wide" -> "wd"
        [] d.kind = "noball" -> Ch(DigitChars, d.runs + 1) \o "nb"
        [] OTHER -> Ch(DigitChars, d.runs + 1)>>

RECURSIVE BallsBefore(_, _)
\* the deliveries of the first n elements
BallsBefore(elements, n) ==
    IF n = 0 THEN <<>> ELSE BallsBefore(elements, n - 1) \o elements[n]

\* the fragment that tells of the deliveries of a layout
Fragment(layout) ==
    [elements |-> [i \in 1..Len(layout.elements) |->
                     ElementText(layout.elements[i],
                                 Len(BallsBefore(layout.elements, i - 1)) + 1)],
     tables |-> [i \in 1..Len(layout.tables) |->
                   [headers |-> <<"Batsman", "Runs">>,
                    rows |-> [j \in 1..Len(layout.tables[i]) |->
                                TableBallRow(layout.tables[i][j])]]]]

RECURSIVE ElementLayouts(_)
\* the ways to put at most n deliveries into detail elements
ElementLayouts(n) ==
    IF n = 0 THEN {<<>>}
    ELSE {<<>>} \cup UNION {{<<e>> \o r : r \in ElementLayouts(n - Len(e))} :
                            e \in SeqsUpTo(BallPool, n) \ {<<>>}}

TableLayouts ==
    {<<>>} \cup {<<t>> : t \in SeqsUpTo(TableBallPool, MaxTableBalls) \ {<<>>}}

BallLayouts ==
    {None} \cup {<<[elements |-> e, tables |-> t]>> :
                   e \in ElementLayouts(MaxBalls), t \in TableLayouts}

InitBalls ==
    /\ ball_layout \in BallLayouts
    /\ ball_counts = <<>>
    /\ elems_done = 0
    /\ tables_done = 0
    /\ ballpc = "new"
    /\ BallsOthersIdle
    /\ ContextIdle
    /\ SplitIdle
    /\ RowIdle
    /\ MainIdle
    /\ MetaIdle

\* if not ball_html: return {}
NoFragment ==
    /\ ballpc = "new"
    /\ ball_layout = None
    /\ ballpc' = "done"
    /\ UNCHANGED <<ball_layout, ball_counts, elems_done, tables_done, ballsOthers>>

\* soup = BeautifulSoup(ball_html, "html.parser"); counts = {}
ReadFragment ==
    /\ ballpc = "new"
    /\ ball_layout # None
    /\ ballpc' = "elements"
    /\ UNCHANGED <<ball_layout, ball_counts, elems_done, tables_done, ballsOthers>>

\* for elem in detail_elements: one element, all its matches of ball_pattern
ReadElement ==
    /\ ballpc = "elements"
    /\ elems_done < Len(ball_layout[1].elements)
    /\ ball_counts' = DetailElement(ball_counts,
                                    Fragment(ball_layout[1]).elements[elems_done + 1])
    /\ elems_done' = elems_done + 1
    /\ UNCHANGED <<ball_layout, tables_done, ballpc, ballsOthers>>

\* all_tables = soup.find_all("table")
ElementsRead ==
    /\ ballpc = "elements"
    /\ elems_done = Len(ball_layout[1].elements)
    /\ ballpc' = "tables"
    /\ UNCHANGED <<ball_layout, ball_counts, elems_done, tables_done, ballsOthers>>

\* for tbl in all_tables: one table, all its rows
ReadBallTable ==
    /\ ballpc = "tables"
    /\ tables_done < Len(ball_layout[1].tables)
    /\ ball_counts' = BallTable(ball_counts, Fragment(ball_layout[1]).tables[tables_done + 1])
    /\ tables_done' = tables_done + 1
    /\ UNCHANGED <<ball_layout, elems_done, ballpc, ballsOthers>>

\* return counts
ReturnCounts ==
    /\ ballpc = "tables"
    /\ tables_done = Len(ball_layout[1].tables)
    /\ ballpc' = "done"
    /\ UNCHANGED <<ball_layout, ball_counts, elems_done, tables_done, ballsOthers>>

NextBalls ==
    \/ NoFragment
    \/ ReadFragment
    \/ ReadElement
    \/ ElementsRead
    \/ ReadBallTable
    \/ ReturnCounts

SpecBalls == InitBalls /\ [][NextBalls]_vars

\* the steps make what parse_ball_by_ball returns for the fragment
BallStepsMakeTheParser ==
    ballpc = "done"
    => ball_counts = parse_ball_by_ball(IF ball_layout = None THEN None
                                        ELSE <<Fragment(ball_layout[1])>>)

\* the deliveries of the layout, those of the elements before those of the tables
AllBalls(layout) ==
    BallsBefore(layout.elements, Len(layout.elements))
        \o BallsBefore(layout.tables, Len(layout.tables))

\* the name a batter goes by in the counts: the ball-by-ball source shortens
\* names, so a batter is known by the first word
BatterKey(name) == FirstWord(title_clean(name))

\* the balls the batter b faced among the deliveries ds: all but the wides
Faced(ds, b) ==
    Cardinality({i \in 1..Len(ds) : BatterKey(ds[i].batter) = b /\ ds[i].kind # "wide"})

\* the dot balls among them: those without a run
FacedDots(ds, b) ==
    Cardinality({i \in 1..Len(ds) : /\ BatterKey(ds[i].batter) = b
                                    /\ ds[i].kind # "wide"
                                    /\ ds[i].runs = 0})

RECURSIVE CountedFor(_, _, _)
\* the sum of the field f over the entries of the batter b
CountedFor(cnt, b, f) ==
    IF cnt = <<>> THEN 0
    ELSE (IF BatterKey(cnt[1].name) = b THEN cnt[1][f] ELSE 0) + CountedFor(Tail(cnt), b, f)

BallsAsBowled(ds, cnt) ==
    \A b \in {BatterKey(ds[i].batter) : i \in 1..Len(ds)} :
        /\ CountedFor(cnt, b, "balls") = Faced(ds, b)
        /\ CountedFor(cnt, b, "dots") = FacedDots(ds, b)

\* C21: when parse_ball_by_ball has returned, every batter's counts are the
\* deliveries of the fragment as bowled: balls are the batter's deliveries
\* that were no wides, no-balls included, dots are those of them without a
\* run; every entry has balls >= 1 and 0 <= dots <= balls.
C21_CountsAreTheDeliveries ==
    (ballpc = "done" /\ ball_layout # None)
    => /\ BallsAsBowled(AllBalls(ball_layout[1]), ball_counts)
       /\ \A i \in 1..Len(ball_counts) :
            /\ ball_counts[i].balls >= 1
            /\ ball_counts[i].dots >= 0
            /\ ball_counts[i].dots <= ball_counts[i].balls

\* the part of C21 that holds: every entry has balls >= 1 and
\* 0 <= dots <= balls, and no entry is a batter who faced wides only
BallCountsInRange ==
    /\ \A i \in 1..Len(ball_counts) :
         /\ ball_counts[i].balls >= 1
         /\ ball_counts[i].dots >= 0
         /\ ball_counts[i].dots <= ball_counts[i].balls
    /\ (ballpc = "done" /\ ball_layout # None)
       => \A i \in 1..Len(ball_counts) :
            Faced(AllBalls(ball_layout[1]), BatterKey(ball_counts[i].name)) > 0

\* C22: once the commentary of a fragment has produced counts, reading its
\* tables changes no count.
C22_TablesAddNothingToCommentary ==
    [][(ballpc = "tables" /\ ball_counts # <<>>) => ball_counts' = ball_counts]_vars

-----------------------------------------------------------------------------
(* SpecDots: the dot-ball enrichment of parse_batting_row                  *)

MaxLookup == 2

\* names a batting record can have
DotNames == {"Amit", "Ravi", "Amit Kumar", "Al Khan", "Sandeep Parmar", "Jo Root", "Sam"}

\* entries a dot-ball table made by main() can have: the names are in title
\* case and every entry has a ball; each has counts of its own
DotEntries ==
    {[name |-> "Amit", balls |-> 3, dots |-> 1],
     [name |-> "Al Noor", balls |-> 2, dots |-> 1],
     [name |-> "Sandeep", balls |-> 4, dots |-> 2],
     [name |-> "San", balls |-> 5, dots |-> 0],
     [name |-> "Sa", balls |-> 1, dots |-> 1],
     [name |-> "Jo", balls |-> 2, dots |-> 2],
     [name |-> "Sam", balls |-> 6, dots |-> 3]}

\* the tables of at most MaxLookup entries, no name twice
DotTables ==
    {t \in SeqsUpTo(DotEntries, MaxLookup) : \A i, j \in 1..Len(t) : t[i] = t[j] => i = j}

InitDots ==
    /\ bat_name \in DotNames
    /\ dots_table \in DotTables
    /\ dot_out = NoDotFields
    /\ dotpc = "new"
    /\ DotsOthersIdle
    /\ ContextIdle
    /\ SplitIdle
    /\ RowIdle
    /\ MainIdle
    /\ MetaIdle

\* if dot_lookup: ... rec["bat_dot_balls"] = ...
Enrich ==
    /\ dotpc = "new"
    /\ dot_out' = DotFields(bat_name, dots_table)
    /\ dotpc' = "done"
    /\ UNCHANGED <<bat_name, dots_table, dotsOthers>>

NextDots == Enrich

SpecDots == InitDots /\ [][NextDots]_vars

\* the entries named exactly as the batter, and named so when case is ignored
ExactEntries(n, lk) == {i \in 1..Len(lk) : lk[i].name = n}

CaseEntries(n, lk) == {i \in 1..Len(lk) : LowerStr(lk[i].name) = LowerStr(n)}

\* the batter and the entry have the same first name
SameFirstName(n, l) == LowerStr(FirstWord(l)) = LowerStr(FirstWord(n))

\* the batter's first name begins with the entry's name, or the other way round
PrefixNames(n, l) ==
    \/ StartsWith(LowerStr(FirstWord(n)), LowerStr(l))
    \/ StartsWith(LowerStr(l), LowerStr(FirstWord(n)))

ThreeEach(n, l) == Len(FirstWord(n)) >= 3 /\ Len(l) >= 3

\* the first hit of the three lookups in their order, 0 without one
FirstHit(exact, bycase, partial) ==
    IF exact # {} THEN Min0(exact)
    ELSE IF bycase # {} THEN Min0(bycase)
    ELSE Min0(partial)

\* the fields of the entry i, none without entry or without tracked ball
FieldsOfHit(lk, i) ==
    IF i = 0 THEN NoDotFields
    ELSE IF lk[i].balls > 0
    THEN [bat_dot_balls |-> lk[i].dots, bat_bbp_balls |-> lk[i].balls,
          bat_dot_pct |-> DotPct(lk[i].dots, lk[i].balls)]
    ELSE NoDotFields

\* C23: the dot-ball fields are those of the first hit of the exact, the
\* case-insensitive and the partial lookup, in that order; a partial match
\* (same first name, or a prefix) needs three characters or more in both the
\* batter's first name and the entry's name; the fields are set only when
\* the entry has tracked balls > 0.
C23_LookupOrderThreeChars ==
    dotpc = "done"
    => dot_out = FieldsOfHit(dots_table,
                   FirstHit(ExactEntries(bat_name, dots_table),
                            CaseEntries(bat_name, dots_table),
                            {i \in 1..Len(dots_table) :
                               /\ SameFirstName(bat_name, dots_table[i].name)
                                  \/ PrefixNames(bat_name, dots_table[i].name)
                               /\ ThreeEach(bat_name, dots_table[i].name)}))

\* C23, amended: as above, but the three characters are asked of the prefix
\* match only; an entry with the batter's first name is a hit at any length.
C23_LookupOrderPrefixThreeChars ==
    dotpc = "done"
    => dot_out = FieldsOfHit(dots_table,
                   FirstHit(ExactEntries(bat_name, dots_table),
                            CaseEntries(bat_name, dots_table),
                            {i \in 1..Len(dots_table) :
                               \/ SameFirstName(bat_name, dots_table[i].name)
                               \/ /\ PrefixNames(bat_name, dots_table[i].name)
                                  /\ ThreeEach(bat_name, dots_table[i].name)}))

\* "Sandeep Parmar" was looked up in a table that holds the too short "Sa"
\* before the prefix "San": the fields of "San" were set
C23_Witness ==
    /\ dotpc = "done"
    /\ bat_name = "Sandeep Parmar"
    /\ Len(dots_table) = 2
    /\ dots_table[1].name = "Sa"
    /\ dots_table[2].name = "San"
    /\ "bat_bbp_balls" \in DOMAIN dot_out
    /\ dot_out.bat_bbp_balls = 5

-----------------------------------------------------------------------------
(* SpecNames: canonical_name on two raw names                              *)

\* what stands between the two parts of a name
NameSeparators == {"", "'", ".", "-", " ", " - "}

\* raw names as a scorecard and a roster spell them
RawNames ==
    {a \o sep \o b : a \in {"O", "o"}, sep \in NameSeparators, b \in {"Brien", "BRIEN"}}
        \cup {"Amit", "AMIT.", " amit*", "Amit 9", "A.B. Rao", "AB Rao"}

InitNames ==
    /\ raw_a \in RawNames
    /\ raw_b \in RawNames
    /\ key_a = ""
    /\ key_b = ""
    /\ key_again = ""
    /\ namepc = "new"
    /\ NamesOthersIdle
    /\ ContextIdle
    /\ SplitIdle
    /\ RowIdle
    /\ MainIdle
    /\ MetaIdle

\* key = canonical_name(name), for both names and for the key of the first
Canonicalize ==
    /\ namepc = "new"
    /\ key_a' = canonical_name(raw_a)
    /\ key_b' = canonical_name(raw_b)
    /\ key_again' = canonical_name(canonical_name(raw_a))
    /\ namepc' = "done"
    /\ UNCHANGED <<raw_a, raw_b, namesOthers>>

NextNames == Canonicalize

SpecNames == InitNames /\ [][NextNames]_vars

RECURSIVE Unpunctuated(_)
\* s without its punctuation: the letters, digits and whitespace of s
Unpunctuated(s) ==
    IF s = "" THEN ""
    ELSE IF IsAlpha(Ch(s, 1)) \/ IsDigit(Ch(s, 1)) \/ IsSpace(Ch(s, 1))
    THEN Ch(s, 1) \o Unpunctuated(Tail(s))
    ELSE Unpunctuated(Tail(s))

RECURSIVE KeyWords(_, _)
\* the words of s: its runs of letters and digits, in lower case; w is the
\* word being read
KeyWords(s, w) ==
    IF s = "" THEN (IF w = "" THEN <<>> ELSE <<w>>)
    ELSE IF IsAlpha(Ch(s, 1)) \/ IsDigit(Ch(s, 1))
    THEN KeyWords(Tail(s), w \o ToLowerCh(Ch(s, 1)))
    ELSE (IF w = "" THEN <<>> ELSE <<w>>) \o KeyWords(Tail(s), "")

\* C24: two raw names that differ only in letter case or in punctuation
\* characters have the same key, and the key of a key is the key.
C24_KeyIgnoresCaseAndPunctuation ==
    namepc = "done"
    => /\ LowerStr(Unpunctuated(raw_a)) = LowerStr(Unpunctuated(raw_b)) => key_a = key_b
       /\ key_again = key_a

\* C24, amended: two raw names have the same key exactly when they have the
\* same words (runs of letters and digits, case ignored): case, the
\* punctuation and whitespace between the words and at the ends do not
\* matter, punctuation inside a word splits it; the key of a key is the key.
C24_KeyIsTheWords ==
    namepc = "done"
    => /\ key_a = key_b <=> KeyWords(raw_a, "") = KeyWords(raw_b, "")
       /\ LowerStr(raw_a) = LowerStr(raw_b) => key_a = key_b
       /\ key_a = JoinCells(KeyWords(raw_a, ""))
       /\ key_again = key_a

\* "O'Brien" and "o-BRIEN" got the same key
C24_Witness ==
    /\ namepc = "done"
    /\ raw_a = "O'Brien"
    /\ raw_b = "o-BRIEN"
    /\ key_a = "o brien"
    /\ key_b = key_a
    /\ key_again = key_a

-----------------------------------------------------------------------------
(* The tail of a bowling row                                               *)

\* the cells behind the first name-like cell, <<>> when no cell is name-like
TailBehindName(cs, name_idx) ==
    IF name_idx = 0 THEN <<>> ELSE SubSeq(cs, name_idx + 1, Len(cs))

\* four of five cells, or more, are numeric
MostlyNumeric(tail) ==
    10 * Cardinality({i \in 1..Len(tail) : is_numish(tail[i])}) >= 8 * Len(tail)

NumericTailOrNone(tail, out) ==
    /\ (tail = <<>> \/ ~MostlyNumeric(tail)) => out = None
    /\ out # None => (tail # <<>> /\ MostlyNumeric(tail))

\* C25: parse_bowling_row gives no record for a row whose tail behind the
\* first name-like cell is empty or less than 80% numeric; the tail of every
\* accepted row is non-empty and at least 80% numeric.
C25_AcceptedTailIsNumeric ==
    rowpc = "bowling"
    => NumericTailOrNone(TailBehindName(cells, FirstIdx(cells, looks_name)), wr)

\* a row was accepted whose tail is numeric to exactly 80%
C25_Witness ==
    /\ rowpc = "bowling"
    /\ wr # None
    /\ cells = <<"Imran", "4", "0", "24", "2", "1 wd">>
    /\ wr[1].bowler = "Imran"
    /\ wr[1].Wd = 1

-----------------------------------------------------------------------------
(* The integer-harvesting fallback of parse_batting_row                    *)

BattingFieldNames == {"runs", "balls", "fours", "sixes", "sr"}

\* the fields as the R(B) and positional steps leave them
AfterPositional(cs, name_idx) ==
    Positional(MrbSearch(JoinCells(cs)), OrderedNums(SubSeq(cs, name_idx + 1, Len(cs))))

\* how many of the five fields have the value v
FieldsWith(h, v) == Cardinality({f \in BattingFieldNames : h[f] = v})

\* how many cells of the row are the number v
CellsWith(cs, v) ==
    Cardinality({i \in 1..Len(cs) : PyFloat(cs[i]) # <<>> /\ Reduce(PyFloat(cs[i])[1]) = v})

\* p are the fields before the fallback, h the fields after it
FallbackUsesCellsOnce(cs, p, h) ==
    \A f \in BattingFieldNames :
        /\ notna(p[f]) => h[f] = p[f]
        /\ (isna(p[f]) /\ notna(h[f])) => FieldsWith(h, h[f]) <= CellsWith(cs, h[f])

\* C26: the integer-harvesting and strike-rate fallback changes no field
\* that the R(B) and positional steps have set, and a value it fills in
\* comes from a cell that no other field uses: no more fields have the
\* value than the row has cells with it.
C26_FallbackUsesEachCellOnce ==
    (rowpc = "batting" /\ br # None)
    => FallbackUsesCellsOnce(cells, AfterPositional(cells, FirstIdx(cells, looks_name)),
                             Harvested)

-----------------------------------------------------------------------------
(* SpecLeague: the exporter's main() running process_league for two        *)
(* leagues on parallel workers                                             *)

MaxLeagueMatches == 2

LeagueWorkers == {1, 2}

RECURSIVE LastSegment(_)
\* base_path.split("/")[-1]
LastSegment(s) ==
    IF ~Contains(s, "/") THEN s
    ELSE LastSegment(SubSeq(s, Min0({i \in 1..Len(s) : Ch(s, i) = "/"}) + 1, Len(s)))

RECURSIVE IntStr(_)
\* str(n) of a natural number
IntStr(n) == IF n < 10 THEN Ch(DigitChars, n + 1) ELSE IntStr(n \div 10) \o Ch(DigitChars, (n % 10) + 1)

\* f"{league_name}_{league_id}"
get_output_dir_name(base_path, league_id) == LastSegment(base_path) \o "_" \o IntStr(league_id)

OutDir(league) == get_output_dir_name(league.base_path, league.league_id)

\* the match ids a results page can list: most recent first
MatchIdLists ==
    {q \in SeqsUpTo({1, 2, 3}, MaxLeagueMatches) :
        q # <<>> /\ \A i \in 1..(Len(q) - 1) : q[i] > q[i + 1]}

\* the configured leagues: the second is another team of the first's league,
\* the same league on another host, or another league; team_id 0 is a league
\* entry without team_id; match_ids are the entry's own ids (explicit) or
\* those discover_match_ids finds on the results page
LeagueConfigs ==
    {<<[base_path |-> "https://cricclubs.com/LeagueA", league_id |-> 7, team_id |-> 1,
        explicit |-> TRUE, match_ids |-> m1],
       [base_path |-> b2, league_id |-> 7, team_id |-> t2, explicit |-> FALSE,
        match_ids |-> m2]>> :
        m1 \in {<<2, 1>>}, m2 \in MatchIdLists,
        b2 \in {"https://cricclubs.com/LeagueA", "https://mirror.org/x/LeagueA",
                "https://cricclubs.com/LeagueB"},
        t2 \in {2}}
    \cup {<<[base_path |-> "https://cricclubs.com/LeagueA", league_id |-> 7, team_id |-> 1,
             explicit |-> TRUE, match_ids |-> <<2, 1>>],
            [base_path |-> "LeagueA", league_id |-> 7, team_id |-> 0, explicit |-> TRUE,
             match_ids |-> <<3>>]>>}

\* a saved match: its id and when it was fetched (0: in an earlier run,
\* w: in this run by worker w)
MatchRecord(mid, at) == [match_id |-> mid, fetched_at |-> at]

NoFile == [exists |-> FALSE, torn |-> FALSE, writers |-> {}, matches |-> <<>>]

FileOf(ms) == [exists |-> TRUE, torn |-> FALSE, writers |-> {}, matches |-> ms]

\* matches.json as earlier runs left it: none, matches in descending order, or
\* a file cut short that json.loads rejects
SavedFiles ==
    {NoFile, FileOf(<<MatchRecord(1, 0)>>), FileOf(<<MatchRecord(3, 0), MatchRecord(1, 0)>>),
     [exists |-> TRUE, torn |-> TRUE, writers |-> {}, matches |-> <<>>]}

LeagueDirs(ls) == {OutDir(ls[w]) : w \in LeagueWorkers}

InitLeague ==
    /\ force_refresh \in BOOLEAN
    /\ leagues \in LeagueConfigs
    /\ out_files \in [LeagueDirs(leagues) -> SavedFiles]
    /\ files_before = out_files
    /\ leaguepc = [w \in LeagueWorkers |-> "start"]
    /\ existing_matches = [w \in LeagueWorkers |-> <<>>]
    /\ new_match_ids = [w \in LeagueWorkers |-> <<>>]
    /\ futures = [w \in LeagueWorkers |-> {}]
    /\ completed = [w \in LeagueWorkers |-> <<>>]
    /\ records = [w \in LeagueWorkers |-> <<>>]
    /\ written = [w \in LeagueWorkers |-> None]
    /\ LeagueOthersIdle
    /\ ContextIdle
    /\ SplitIdle
    /\ RowIdle
    /\ MainIdle
    /\ MetaIdle

\* a file that is not there gives {}, and so does one that json.loads cannot
\* read; otherwise {match["match_id"]: match for match in existing}
load_existing_matches(file) ==
    IF ~file.exists \/ file.torn THEN <<>> ELSE file.matches

\* a league entry without one of its required fields: return None
MissingFields(w) ==
    /\ leaguepc[w] = "start"
    /\ leagues[w].team_id = 0
    /\ leaguepc' = [leaguepc EXCEPT ![w] = "done"]
    /\ UNCHANGED <<force_refresh, leagues, out_files, files_before, existing_matches,
                   new_match_ids, futures, completed, records, written, leagueOthers>>

\* out_dir.mkdir(...); existing_matches = load_existing_matches(output_file)
\* unless FORCE_REFRESH
LoadExisting(w) ==
    /\ leaguepc[w] = "start"
    /\ leagues[w].team_id # 0
    /\ existing_matches' =
         [existing_matches EXCEPT ![w] =
            IF force_refresh THEN <<>> ELSE load_existing_matches(out_files[OutDir(leagues[w])])]
    /\ leaguepc' = [leaguepc EXCEPT ![w] = "loaded"]
    /\ UNCHANGED <<force_refresh, leagues, out_files, files_before, new_match_ids, futures,
                   completed, records, written, leagueOthers>>

\* discover_match_ids found nothing: return None
NothingDiscovered(w) ==
    /\ leaguepc[w] = "loaded"
    /\ ~leagues[w].explicit
    /\ leaguepc' = [leaguepc EXCEPT ![w] = "done"]
    /\ UNCHANGED <<force_refresh, leagues, out_files, files_before, existing_matches,
                   new_match_ids, futures, completed, records, written, leagueOthers>>

\* a rule that takes every id for new
EveryMatchId(match_ids, existing) == match_ids

\* new_match_ids = [mid for mid in match_ids if mid not in existing_ids]
NewMatchIds(match_ids, existing) ==
    SelectSeq(match_ids, LAMBDA mid : \A i \in 1..Len(existing) : existing[i].match_id # mid)

\* the ids are discovered and those to fetch are chosen: with nothing new the
\* worker returns (incremental mode); with FORCE_REFRESH all ids are new and
\* existing_matches is cleared; the fetches are submitted
SelectMatches(w, new_ids) ==
    /\ leaguepc[w] = "loaded"
    /\ IF ~force_refresh /\ new_ids = <<>>
       THEN /\ leaguepc' = [leaguepc EXCEPT ![w] = "done"]
            /\ UNCHANGED <<existing_matches, new_match_ids, futures, records>>
       ELSE /\ leaguepc' = [leaguepc EXCEPT ![w] = "fetching"]
            /\ new_match_ids' =
                 [new_match_ids EXCEPT ![w] =
                    IF force_refresh THEN leagues[w].match_ids ELSE new_ids]
            /\ futures' =
                 [futures EXCEPT ![w] =
                    IF force_refresh THEN {leagues[w].match_ids[i] :
                                             i \in 1..Len(leagues[w].match_ids)}
                    ELSE {new_ids[i] : i \in 1..Len(new_ids)}]
            /\ existing_matches' =
                 [existing_matches EXCEPT ![w] = IF force_refresh THEN <<>> ELSE @]
            /\ records' = [records EXCEPT ![w] = IF force_refresh THEN <<>> ELSE existing_matches[w]]
    /\ UNCHANGED <<force_refresh, leagues, out_files, files_before, completed, written,
                   leagueOthers>>

\* for future in as_completed(futures): the fetch of mid completes, with a
\* match (ok) or with None; if result: records.append(result)
FetchCompleted(w, mid, ok) ==
    /\ leaguepc[w] = "fetching"
    /\ mid \in futures[w]
    /\ futures' = [futures EXCEPT ![w] = @ \ {mid}]
    /\ completed' = [completed EXCEPT ![w] = Append(@, [match_id |-> mid, ok |-> ok])]
    /\ records' = [records EXCEPT ![w] = IF ok THEN Append(@, MatchRecord(mid, w)) ELSE @]
    /\ UNCHANGED <<force_refresh, leagues, out_files, files_before, leaguepc,
                   existing_matches, new_match_ids, written, leagueOthers>>

RECURSIVE SortedDescending(_)
\* records.sort(key=lambda x: x["match_id"], reverse=True)
SortedDescending(rs) ==
    IF rs = <<>> THEN <<>>
    ELSE SortedDescending(SelectSeq(Tail(rs), LAMBDA r : r.match_id > Head(rs).match_id))
           \o <<Head(rs)>>
           \o SortedDescending(SelectSeq(Tail(rs), LAMBDA r : r.match_id <= Head(rs).match_id))

\* records.sort(...); output_file.write_text(...) opens the file, which
\* empties it
BeginSave(w) ==
    /\ leaguepc[w] = "fetching"
    /\ futures[w] = {}
    /\ records' = [records EXCEPT ![w] = SortedDescending(@)]
    /\ out_files' = [out_files EXCEPT ![OutDir(leagues[w])] =
                       [exists |-> TRUE, torn |-> TRUE, writers |-> @.writers \cup {w},
                        matches |-> <<>>]]
    /\ leaguepc' = [leaguepc EXCEPT ![w] = "saving"]
    /\ UNCHANGED <<force_refresh, leagues, files_before, existing_matches, new_match_ids,
                   futures, completed, written, leagueOthers>>

\* write_text writes the records and closes the file; while another worker
\* has the file open for writing the bytes of the two are mixed (mixed) or
\* this worker's bytes are the last ones
EndSave(w, mixed) ==
    /\ leaguepc[w] = "saving"
    /\ mixed => out_files[OutDir(leagues[w])].writers # {w}
    /\ out_files' = [out_files EXCEPT ![OutDir(leagues[w])] =
                       [exists |-> TRUE, torn |-> mixed, writers |-> @.writers \ {w},
                        matches |-> IF mixed THEN <<>> ELSE records[w]]]
    /\ written' = [written EXCEPT ![w] = <<records[w]>>]
    /\ leaguepc' = [leaguepc EXCEPT ![w] = "done"]
    /\ UNCHANGED <<force_refresh, leagues, files_before, existing_matches, new_match_ids,
                   futures, completed, records, leagueOthers>>

NextLeague ==
    \E w \in LeagueWorkers :
        \/ MissingFields(w)
        \/ LoadExisting(w)
        \/ NothingDiscovered(w)
        \/ SelectMatches(w, NewMatchIds(leagues[w].match_ids, existing_matches[w]))
        \/ \E mid \in {1, 2, 3}, ok \in BOOLEAN : FetchCompleted(w, mid, ok)
        \/ BeginSave(w)
        \/ \E mixed \in BOOLEAN : EndSave(w, mixed)

SpecLeague == InitLeague /\ [][NextLeague]_vars

LeaguesDone == \A w \in LeagueWorkers : leaguepc[w] = "done"

SameOutDir == OutDir(leagues[1]) = OutDir(leagues[2])

\* the ids of the matches worker w fetched
FetchedIds(w) ==
    {completed[w][i].match_id : i \in {j \in 1..Len(completed[w]) : completed[w][j].ok}}

SavedIds(file) == {file.matches[i].match_id : i \in 1..Len(file.matches)}

\* C27: when the two leagues resolve to the same output directory and both
\* workers have finished, the final matches.json holds every match either
\* worker fetched, whatever the interleaving of the two
C27_SharedFileKeepsBothWorkersMatches ==
    (LeaguesDone /\ SameOutDir)
        => \A w \in LeagueWorkers :
             FetchedIds(w) \subseteq SavedIds(out_files[OutDir(leagues[w])])

IsDescending(rs) == \A i \in 1..(Len(rs) - 1) : rs[i].match_id > rs[i + 1].match_id

RecordsOf(rs) == {rs[i] : i \in 1..Len(rs)}

IdsOf(rs) == {rs[i].match_id : i \in 1..Len(rs)}

\* the ids whose fetch by worker w gave no match
FailedIds(w) ==
    {completed[w][i].match_id : i \in {j \in 1..Len(completed[w]) : ~completed[w][j].ok}}

\* C28: in incremental mode a worker fetches no id that is in the
\* matches.json it loaded; what it saves holds every loaded match unchanged,
\* the matches whose fetch succeeded and nothing else (a failed fetch is left
\* out and takes nothing away), ordered by match_id descending; in a
\* directory of its own what it loaded is what the earlier runs saved
C28_IncrementalSaveKeepsTheSaved ==
    ~force_refresh =>
        \A w \in LeagueWorkers :
            /\ IdsOf(existing_matches[w]) \cap
                 ({new_match_ids[w][i] : i \in 1..Len(new_match_ids[w])}
                    \cup futures[w] \cup FetchedIds(w) \cup FailedIds(w)) = {}
            /\ written[w] # None =>
                 /\ RecordsOf(existing_matches[w]) \subseteq RecordsOf(written[w][1])
                 /\ IdsOf(written[w][1]) = IdsOf(existing_matches[w]) \cup FetchedIds(w)
                 /\ Len(written[w][1]) = Cardinality(IdsOf(written[w][1]))
                 /\ FailedIds(w) \cap IdsOf(written[w][1]) = {}
                 /\ IsDescending(written[w][1])
            /\ (~SameOutDir /\ leaguepc[w] \notin {"start"} /\ leagues[w].team_id # 0) =>
                 existing_matches[w] = files_before[OutDir(leagues[w])].matches

\* a worker loaded two saved matches, its fetch of a third failed, and it has
\* returned
C28_FailedFetchWitness ==
    \E w \in LeagueWorkers :
        /\ ~force_refresh
        /\ leaguepc[w] = "done"
        /\ written[w] # None
        /\ Len(existing_matches[w]) = 2
        /\ FailedIds(w) # {}

\* a worker's fetches completed in ascending order of id, behind a loaded
\* match, and it has saved
C28_Witness ==
    \E w \in LeagueWorkers :
        /\ ~force_refresh
        /\ written[w] # None
        /\ existing_matches[w] # <<>>
        /\ Len(completed[w]) = 2
        /\ completed[w][1].ok /\ completed[w][2].ok
        /\ completed[w][1].match_id < completed[w][2].match_id
        /\ Len(written[w][1]) = 3

-----------------------------------------------------------------------------
(* SpecFetch: fetch_single_match, whose three fetch functions each launch  *)
(* a browser and load a page in up to `attempts` attempts                  *)

\* attempts=3: what fetch_single_match passes to fetch_scorecard_rendered and
\* the default of fetch_ball_by_ball and fetch_match_info
Attempts == 3

\* what launching the browser can raise
LaunchErrors ==
    {"Executable doesn't exist at /ms-playwright/chromium/chrome",
     "It looks like you are using Playwright Sync API inside the Asyncio loop",
     "Target page, context or browser has been closed"}

\* "Executable doesn't exist" in str(e) or "asyncio" in str(e).lower()
IsInstallError(message) ==
    Contains(message, "Executable doesn't exist") \/ Contains(LowerStr(message), "asyncio")

\* what extract_tables_html can give for a loaded scorecard page
ScorecardPages == {"", "<div>Scorecard not available</div>", "<TABLE><tr><td>Amit</td></tr></TABLE>"}

\* tables and re.search(r"<table", tables, flags=re.I)
HasTables(tables) == tables # "" /\ Contains(LowerStr(tables), "<table")

\* the lengths of a loaded ball-by-ball page
BallPageChars == {0, 1000, 1001}

\* ball_html and len(ball_html) > 1000
LongEnough(chars) == chars # 0 /\ chars > 1000

\* one attempt: the launch raises (launch, with its message), new_page
\* raises (no_page), the page load raises (load_failed), or the page is
\* loaded (loaded, with what was read from it)
AttemptOutcomes(pages) ==
    {[kind |-> "launch", what |-> m] : m \in LaunchErrors}
    \cup {[kind |-> "no_page", what |-> ""], [kind |-> "load_failed", what |-> ""]}
    \cup {[kind |-> "loaded", what |-> p] : p \in pages}

InitFetch ==
    /\ fetchpc = "scorecard"
    /\ attempt = 1
    /\ fetch_log = <<>>
    /\ got_tables = None
    /\ got_ball = None
    /\ got_info = None
    /\ fetched = "pending"
    /\ FetchOthersIdle
    /\ ContextIdle
    /\ SplitIdle
    /\ RowIdle
    /\ MainIdle
    /\ MetaIdle

Logged(fn, outcome) == Append(fetch_log, [fn |-> fn, attempt |-> attempt, outcome |-> outcome])

\* the attempt raises out of the fetch function: a launch error that is not
\* an installation error, an installation error at the last attempt, or an
\* error of context.new_page(), which is outside the try
RaisesThrough(outcome) ==
    \/ outcome.kind = "launch" /\ (~IsInstallError(outcome.what) \/ attempt >= Attempts)
    \/ outcome.kind = "no_page"

\* fetch_single_match's except: the exception of any of the three functions
\* makes it return None
ReturnNone(fn, outcome) ==
    /\ fetch_log' = Logged(fn, outcome)
    /\ fetched' = "none"
    /\ fetchpc' = "done"
    /\ UNCHANGED <<attempt, got_tables, got_ball, got_info>>

\* continue: the next attempt of the same function
NextAttempt(fn, outcome) ==
    /\ fetch_log' = Logged(fn, outcome)
    /\ attempt' = attempt + 1
    /\ UNCHANGED <<fetchpc, got_tables, got_ball, got_info, fetched>>

\* one pass of the loop of fetch_scorecard_rendered: it returns the tables
\* of a page that has some, goes on to the next attempt, or raises (after the
\* last attempt RuntimeError("failed after ..."))
ScorecardAttempt(outcome) ==
    /\ fetchpc = "scorecard"
    /\ IF outcome.kind = "loaded" /\ HasTables(outcome.what)
       THEN /\ fetch_log' = Logged("scorecard", outcome)
            /\ got_tables' = <<outcome.what>>
            /\ fetchpc' = "ball"
            /\ attempt' = 1
            /\ UNCHANGED <<got_ball, got_info, fetched>>
       ELSE IF RaisesThrough(outcome) \/ attempt >= Attempts
       THEN ReturnNone("scorecard", outcome)
       ELSE NextAttempt("scorecard", outcome)
    /\ UNCHANGED fetchOthers

\* one pass of the loop of fetch_ball_by_ball: it returns a page of more
\* than 1000 characters, goes on, raises, or after the last attempt returns ""
BallAttempt(outcome) ==
    /\ fetchpc = "ball"
    /\ IF outcome.kind = "loaded" /\ LongEnough(outcome.what)
       THEN /\ fetch_log' = Logged("ball", outcome)
            /\ got_ball' = <<outcome.what>>
            /\ fetchpc' = "info"
            /\ attempt' = 1
            /\ UNCHANGED <<got_tables, got_info, fetched>>
       ELSE IF RaisesThrough(outcome)
       THEN ReturnNone("ball", outcome)
       ELSE IF attempt >= Attempts
       THEN /\ fetch_log' = Logged("ball", outcome)
            /\ got_ball' = <<"">>
            /\ fetchpc' = "info"
            /\ attempt' = 1
            /\ UNCHANGED <<got_tables, got_info, fetched>>
       ELSE NextAttempt("ball", outcome)
    /\ UNCHANGED fetchOthers

\* one pass of the loop of fetch_match_info: it returns the page whatever it
\* holds, goes on, raises, or after the last attempt returns ""; with its
\* return fetch_single_match returns the match
InfoAttempt(outcome) ==
    /\ fetchpc = "info"
    /\ IF outcome.kind = "loaded"
       THEN /\ fetch_log' = Logged("info", outcome)
            /\ got_info' = <<outcome.what>>
            /\ fetched' = "match"
            /\ fetchpc' = "done"
            /\ UNCHANGED <<attempt, got_tables, got_ball>>
       ELSE IF RaisesThrough(outcome)
       THEN ReturnNone("info", outcome)
       ELSE IF attempt >= Attempts
       THEN /\ fetch_log' = Logged("info", outcome)
            /\ got_info' = <<"">>
            /\ fetched' = "match"
            /\ fetchpc' = "done"
            /\ UNCHANGED <<attempt, got_tables, got_ball>>
       ELSE NextAttempt("info", outcome)
    /\ UNCHANGED fetchOthers

NextFetch ==
    \/ \E outcome \in AttemptOutcomes(ScorecardPages) : ScorecardAttempt(outcome)
    \/ \E outcome \in AttemptOutcomes(BallPageChars) : BallAttempt(outcome)
    \/ \E outcome \in AttemptOutcomes({"<html>Toss won by Lions</html>", ""}) : InfoAttempt(outcome)

SpecFetch == InitFetch /\ [][NextFetch]_vars

\* every call of an attempt returns or raises within its timeouts (goto
\* timeout=45000, wait_for_selector timeout=6000, time.sleep): an attempt
\* that can be made is made
FairSpecFetch == SpecFetch /\ WF_vars(NextFetch)

\* the attempts of a fetch function in the log
AttemptsOf(fn) == SelectSeq(fetch_log, LAMBDA e : e.fn = fn)

\* the attempts that loaded (or tried to load) a page
PageLoads(fn) == SelectSeq(AttemptsOf(fn), LAMBDA e : e.outcome.kind \in {"load_failed", "loaded"})

Captured(e) == e.outcome.kind = "loaded" /\ HasTables(e.outcome.what)

ScorecardOver == fetchpc # "scorecard"

\* fetch_single_match comes to its return under every sequence of outcomes
FetchTerminates == <>(fetchpc = "done")

\* the attempt numbers of a function are 1, 2, ... up to attempts
FetchAttemptsAreCounted ==
    \A fn \in {"scorecard", "ball", "info"} :
        /\ Len(AttemptsOf(fn)) <= Attempts
        /\ \A i \in 1..Len(AttemptsOf(fn)) : AttemptsOf(fn)[i].attempt = i

\* C29: fetch_scorecard_rendered loads the page at most `attempts` times,
\* returns at the first attempt that captures a table and raises when none
\* did; fetch_single_match returns the match exactly when the scorecard
\* fetch returned, and a ball-by-ball or info fetch that failed leaves the
\* match returned with that fragment empty
C29_SavedExactlyWhenScorecardFetched ==
    /\ Len(PageLoads("scorecard")) <= Attempts
    /\ \A i \in 1..Len(AttemptsOf("scorecard")) :
         Captured(AttemptsOf("scorecard")[i])
            => /\ i = Len(AttemptsOf("scorecard"))
               /\ got_tables = <<AttemptsOf("scorecard")[i].outcome.what>>
    /\ ScorecardOver =>
         (got_tables = None <=> \A i \in 1..Len(AttemptsOf("scorecard")) :
                                    ~Captured(AttemptsOf("scorecard")[i]))
    /\ fetchpc = "done" =>
         /\ fetched = "match" <=> got_tables # None
         /\ (got_tables # None /\ ~\E i \in 1..Len(AttemptsOf("ball")) :
                 /\ AttemptsOf("ball")[i].outcome.kind = "loaded"
                 /\ LongEnough(AttemptsOf("ball")[i].outcome.what))
               => got_ball = <<"">>
         /\ (got_tables # None /\ ~\E i \in 1..Len(AttemptsOf("info")) :
                 AttemptsOf("info")[i].outcome.kind = "loaded")
               => got_info = <<"">>

-----------------------------------------------------------------------------
(* SpecFiles: main()'s loop over the input files and their matches         *)

MaxFiles == 2

\* the paths given with --file or found by discover_match_files
FilePaths ==
    {"cricclubs_export_out/LeagueA_7/matches.json", "backup/LeagueA_7/matches.json",
     "matches.json"}

\* the largest of a set of positions, 0 of none
LastOf(S) == IF S = {} THEN 0 ELSE CHOOSE i \in S : \A j \in S : i >= j

\* the positions of the "/" of a path
Slashes(path) == {i \in 1..Len(path) : Ch(path, i) = "/"}

\* path.parent.name: the last directory of the path, "" for a bare file name
ParentName(path) ==
    IF Slashes(path) = {} THEN ""
    ELSE SubSeq(path, LastOf({i \in Slashes(path) : i < LastOf(Slashes(path))}) + 1,
                LastOf(Slashes(path)) - 1)

\* the dots of the file name behind its first character
SuffixDots(path) == {i \in 1..Len(path) : Ch(path, i) = "." /\ i > LastOf(Slashes(path)) + 1}

\* path.stem: the file name without its last suffix
Stem(path) ==
    SubSeq(path, LastOf(Slashes(path)) + 1,
           IF SuffixDots(path) = {} THEN Len(path) ELSE LastOf(SuffixDots(path)) - 1)

\* a tag that is the whole path
source_path(path) == path

\* source_tag = path.parent.name or path.stem
source_tag(path) == IF ParentName(path) # "" THEN ParentName(path) ELSE Stem(path)

\* a saved match as main() uses it: its id, whether it has tables_html or
\* html, and the names its batting and bowling rows give records for
SavedMatch(mid, tables, batters, bowlers) ==
    [match_id |-> mid, tables |-> tables, batters |-> batters, bowlers |-> bowlers]

\* what json.loads(path.read_text()) gives: None when it raises, no match,
\* one match, a match twice (fetched again with another row), two matches,
\* a match without tables before the same match with tables
FileContents ==
    {None,
     <<<<>>>>,
     <<<<SavedMatch(1, TRUE, <<"Amit">>, <<"Ravi">>)>>>>,
     <<<<SavedMatch(1, TRUE, <<"Amit">>, <<"Ravi">>),
         SavedMatch(1, TRUE, <<"Amit", "Ravi">>, <<>>)>>>>,
     <<<<SavedMatch(2, TRUE, <<"Ravi">>, <<"Amit", "Ravi">>),
         SavedMatch(1, TRUE, <<"Amit">>, <<"Ravi">>)>>>>,
     <<<<SavedMatch(1, FALSE, <<>>, <<>>), SavedMatch(1, TRUE, <<"Amit">>, <<"Ravi">>)>>>>}

InputFiles == {[path |-> p, raw |-> c] : p \in FilePaths, c \in FileContents}

InitFiles ==
    /\ match_files \in {q \in SeqsUpTo(InputFiles, MaxFiles) : q # <<>>}
    /\ file_idx = 1
    /\ match_idx = 0
    /\ seen_matches = {}
    /\ all_bats = <<>>
    /\ all_bowls = <<>>
    /\ bats_from = <<>>
    /\ bowls_from = <<>>
    /\ filepc = "files"
    /\ FilesOthersIdle
    /\ ContextIdle
    /\ SplitIdle
    /\ RowIdle
    /\ MainIdle
    /\ MetaIdle

CurrentFile == match_files[file_idx]

CurrentMatch == CurrentFile.raw[1][match_idx]

\* match_key = (source_tag, match_id)
MatchKey(path, match) == <<source_tag(path), match.match_id>>

\* all files are read: the outputs are written
FilesRead ==
    /\ filepc = "files"
    /\ file_idx > Len(match_files)
    /\ filepc' = "done"
    /\ UNCHANGED <<match_files, file_idx, match_idx, seen_matches, all_bats, all_bowls,
                   bats_from, bowls_from, filesOthers>>

\* json.loads raises, or raw is empty: continue with the next file
SkipFile ==
    /\ filepc = "files"
    /\ file_idx <= Len(match_files)
    /\ match_idx = 0
    /\ CurrentFile.raw = None \/ CurrentFile.raw = <<<<>>>>
    /\ file_idx' = file_idx + 1
    /\ UNCHANGED <<match_files, match_idx, seen_matches, all_bats, all_bowls, bats_from,
                   bowls_from, filepc, filesOthers>>

\* raw = json.loads(path.read_text()) with matches in it
ReadFile ==
    /\ filepc = "files"
    /\ file_idx <= Len(match_files)
    /\ match_idx = 0
    /\ CurrentFile.raw # None /\ CurrentFile.raw # <<<<>>>>
    /\ match_idx' = 1
    /\ UNCHANGED <<match_files, file_idx, seen_matches, all_bats, all_bowls, bats_from,
                   bowls_from, filepc, filesOthers>>

\* for match in raw: the next match, or the next file behind the last one
Advance ==
    IF match_idx < Len(CurrentFile.raw[1])
    THEN match_idx' = match_idx + 1 /\ UNCHANGED file_idx
    ELSE match_idx' = 0 /\ file_idx' = file_idx + 1

AtMatch == filepc = "files" /\ file_idx <= Len(match_files) /\ match_idx > 0

\* if match_key in seen_matches: continue
SeenMatch(match_key) ==
    /\ AtMatch
    /\ match_key \in seen_matches
    /\ Advance
    /\ UNCHANGED <<match_files, seen_matches, all_bats, all_bowls, bats_from, bowls_from,
                   filepc, filesOthers>>

\* seen_matches.add(match_key); if not html_tables: continue
MatchWithoutTables(match_key) ==
    /\ AtMatch
    /\ match_key \notin seen_matches
    /\ ~CurrentMatch.tables
    /\ seen_matches' = seen_matches \cup {match_key}
    /\ Advance
    /\ UNCHANGED <<match_files, all_bats, all_bowls, bats_from, bowls_from, filepc,
                   filesOthers>>

\* the records the rows of a match give (the table loop is Spec's)
RecordsFor(mid, names) == [i \in 1..Len(names) |-> [Match_Id |-> mid, Name |-> names[i]]]

\* seen_matches.add(match_key) and the match's tables are read: its batting
\* rows are appended to bats, its bowling rows to bowls
ProcessMatch(match_key) ==
    /\ AtMatch
    /\ match_key \notin seen_matches
    /\ CurrentMatch.tables
    /\ seen_matches' = seen_matches \cup {match_key}
    /\ all_bats' = all_bats \o RecordsFor(CurrentMatch.match_id, CurrentMatch.batters)
    /\ all_bowls' = all_bowls \o RecordsFor(CurrentMatch.match_id, CurrentMatch.bowlers)
    /\ bats_from' = bats_from \o [i \in 1..Len(CurrentMatch.batters) |-> <<file_idx, match_idx>>]
    /\ bowls_from' = bowls_from \o [i \in 1..Len(CurrentMatch.bowlers) |-> <<file_idx, match_idx>>]
    /\ Advance
    /\ UNCHANGED <<match_files, filepc, filesOthers>>

AtMatchKey == MatchKey(CurrentFile.path, CurrentMatch)

NextFiles ==
    \/ FilesRead
    \/ SkipFile
    \/ ReadFile
    \/ AtMatch /\ SeenMatch(AtMatchKey)
    \/ AtMatch /\ MatchWithoutTables(AtMatchKey)
    \/ AtMatch /\ ProcessMatch(AtMatchKey)

SpecFiles == InitFiles /\ [][NextFiles]_vars

\* where a match of the input is: the file and the place in the file
Places ==
    {pl \in (1..Len(match_files)) \X (1..2) :
        /\ match_files[pl[1]].raw # None
        /\ pl[2] <= Len(match_files[pl[1]].raw[1])}

MatchAtPlace(pl) == match_files[pl[1]].raw[1][pl[2]]

\* two places hold the same (source directory, match id) pair: the directory
\* names of the files are equal (for bare file names, the stems) and so are
\* the match ids
SamePair(pl, other) ==
    /\ ParentName(match_files[pl[1]].path) = ParentName(match_files[other[1]].path)
    /\ ParentName(match_files[pl[1]].path) = ""
         => Stem(match_files[pl[1]].path) = Stem(match_files[other[1]].path)
    /\ MatchAtPlace(pl).match_id = MatchAtPlace(other).match_id

\* the places records came from
PlacesUsed == {bats_from[i] : i \in 1..Len(bats_from)} \cup {bowls_from[i] : i \in 1..Len(bowls_from)}

\* C30: of the places that hold one (source directory, match id) pair at
\* most one gives records; a place that gives records gives those of its
\* match once: no record of a match is there twice
C30_PairProcessedAtMostOnce ==
    /\ \A pl \in PlacesUsed : \A other \in PlacesUsed : SamePair(pl, other) => pl = other
    /\ PlacesUsed \subseteq Places
    /\ \A pl \in PlacesUsed :
         /\ Cardinality({i \in 1..Len(bats_from) : bats_from[i] = pl})
              = Len(MatchAtPlace(pl).batters)
         /\ Cardinality({i \in 1..Len(bowls_from) : bowls_from[i] = pl})
              = Len(MatchAtPlace(pl).bowlers)
         /\ \A i \in 1..Len(bats_from) :
              bats_from[i] = pl => all_bats[i].Match_Id = MatchAtPlace(pl).match_id
         /\ \A i \in 1..Len(bowls_from) :
              bowls_from[i] = pl => all_bowls[i].Match_Id = MatchAtPlace(pl).match_id

\* the run is over; a match gave records, and the same match was there again
\* in its file and in a later file of a directory of the same name
C30_Witness ==
    /\ filepc = "done"
    /\ \E pl \in PlacesUsed :
         /\ \E other \in Places : other[1] = pl[1] /\ other[2] > pl[2] /\ SamePair(pl, other)
         /\ \E other \in Places :
              /\ other[1] > pl[1]
              /\ match_files[other[1]].path # match_files[pl[1]].path
              /\ MatchAtPlace(other).tables
              /\ SamePair(pl, other)

=============================================================================
